---- MODULE Spec2Model ----
(***************************************************************************)
(* Model of the API security scanner: the payload catalog, the injection   *)
(* strategy, the ten response analyzers and the scan orchestrator          *)
(* (scanner/index.js and the analyzer modules).                            *)
(*                                                                         *)
(* Text is modelled as a sequence of lexical fragments ("tokens"):         *)
(* String.includes is containment of a contiguous run of fragments, a      *)
(* regular expression is a sequence of such runs separated by `.*`.        *)
(* Fragments are written in lower case; the case folding the analyzers     *)
(* apply (toLowerCase, the /i flag) is therefore already applied.          *)
(***************************************************************************)
EXTENDS Integers, Sequences, FiniteSets, TLC

\* JavaScript null where a number is expected (originalStatus, responseTime)
Null == -1

\* a response without a body (axios data: null / undefined)
NoData == <<"<null>">>

(***************************************************************************)
(* String helpers                                                          *)
(***************************************************************************)

\* String.prototype.includes on fragment sequences
Includes(s, p) ==
  \E k \in 0..(Len(s) - Len(p)) : SubSeq(s, k + 1, k + Len(p)) = p

RECURSIVE MatchFrom(_, _, _, _)
MatchFrom(pat, j, s, from) ==
  IF j > Len(pat) THEN TRUE
  ELSE \E k \in from..(Len(s) - Len(pat[j])) :
         /\ SubSeq(s, k + 1, k + Len(pat[j])) = pat[j]
         /\ MatchFrom(pat, j + 1, s, k + Len(pat[j]))

\* RegExp.prototype.test: the runs of pat occur in s in order
Test(pat, s) == MatchFrom(pat, 1, s, 0)

\* Array.prototype.some over a list of regular expressions
SomeTest(list, s) == \E n \in 1..Len(list) : Test(list[n], s)

\* Array.prototype.some over a list of plain phrases
SomeIncludes(list, s) == \E n \in 1..Len(list) : Includes(s, list[n])

\* typeof data === 'string' ? data : JSON.stringify(data || '')
ResponseBody(response) ==
  IF response.data = NoData THEN <<"\"\"">> ELSE response.data

\* response.headers[name]; an absent header reads as the empty (falsy) value
Header(response, name) ==
  IF name \in DOMAIN response.headers THEN response.headers[name] ELSE <<>>

\* the result object every analyzeResponse starts from
EmptyResult ==
  [vulnerable |-> FALSE, confidence |-> "low", indicators |-> <<>>, notes |-> ""]

Push(r, indicator) == [r EXCEPT !.indicators = Append(@, indicator)]

\* a flag that leaves the confidence as it was
FlagKeepConfidence(r, conf, indicator, note) ==
  [r EXCEPT !.vulnerable = TRUE,
            !.indicators = Append(@, indicator), !.notes = note]

Flag(r, conf, indicator, note) ==
  [r EXCEPT !.vulnerable = TRUE, !.confidence = conf,
            !.indicators = Append(@, indicator), !.notes = note]

(***************************************************************************)
(* Payload catalog (scanner/payloads.js and the catalogs local to the      *)
(* newer analyzer modules).  Each catalog keeps its first five entries in  *)
(* order, followed by selected later entries that reach the branches the   *)
(* first five do not (timing keywords, encoded payloads).                  *)
(***************************************************************************)

sqlInjection ==
  << <<"'", "OR", "'1'='1">>,
     <<"\"", "OR", "\"1\"=\"1">>,
     <<"'", "OR", "'1'='1", "'", "--">>,
     <<"\"", "OR", "\"1\"=\"1", "\"", "--">>,
     <<"'", "OR", "'1'='1", "'", "/*">>,
     <<"'", "UNION", "SELECT", "NULL--">>,
     <<"'", "OR", "SLEEP(5)--">> >>

xss ==
  << <<"<script>", "alert(1)", "</script>">>,
     <<"<script>", "alert('xss')", "</script>">>,
     <<"<script>", "alert(document.cookie)", "</script>">>,
     <<"<img", "src=x", "onerror=", "alert(1)", ">">>,
     <<"<img", "src=x", "onerror=", "'alert(1)'", ">">>,
     <<"<marquee", "onstart=", "alert(1)", ">">>,
     <<"%3c", "script", "%3e", "alert(1)", "%3c", "/script", "%3e">>,
     <<"&lt;", "b", "&gt;">> >>

commandInjection ==
  << <<";", "ls">>,
     <<";", "ls", "-la">>,
     <<"|", "ls">>,
     <<"|", "ls", "-la">>,
     <<"&", "ls">>,
     <<";", "sleep", "5">>,
     <<";", "ping -c", "5", "127.0.0.1">> >>

pathTraversal ==
  << <<"../../../", "etc/passwd">>,
     <<"../../../../", "etc/passwd">>,
     <<"../../../../../", "etc/passwd">>,
     <<"../../../../../../", "etc/passwd">>,
     <<"../../../", "etc/shadow">> >>

nosqlInjection ==
  << <<"{", "\"$gt\"", ":", "\"\"", "}">>,
     <<"{", "\"$ne\"", ":", "null", "}">>,
     <<"{", "\"$ne\"", ":", "\"\"", "}">>,
     <<"{", "\"$exists\"", ":", "true", "}">>,
     <<"{", "\"$regex\"", ":", "\".*\"", "}">>,
     <<"{", "\"admin\"", ":", "true", "}">> >>

headerInjection ==
  << <<"<script>", "alert(1)", "</script>">>,
     <<"\">", "<img", "src=x", "onerror=", "alert(1)", ">">>,
     <<"'", "OR", "'1'='1">>,
     <<"'", ";", "DROP", "TABLE", "users", ";", "--">>,
     <<"7.0.1", ";", "DROP", "TABLE", "users">>,
     <<"test", "\r\n", "Set-Cookie:", "malicious", "=value">>,
     <<"test", "%0d%0a", "Set-Cookie:", "evil", "=true">>,
     <<"evil.com">>,
     <<"127.0.0.1">> >>

rateLimitPayloads ==
  << <<"rate_limit_test_1">>, <<"rate_limit_test_2">>, <<"rate_limit_test_3">> >>

malformedPayloads ==
  << <<"{", "\"name\"", ":", "123", ",", ",", "\"xyz\"", ":", "}">>,
     <<"{", "\"unclosed\"", ":", "\"string">>,
     <<"{", "name", ":", "\"no quotes\"", "}">>,
     <<"{", "\"trailing\"", ":", "\"comma\"", ",", "}">>,
     <<>> >>

httpMethods ==
  << <<"TRACE">>, <<"OPTIONS">>, <<"PUT">>, <<"DELETE">>, <<"PATCH">>,
     <<"CONNECT">>, <<"PROPFIND">>, <<"DEBUG">> >>

sizeTests ==
  << <<"500_chars">>, <<"1000_chars">>, <<"5000_chars">>,
     <<"10000_chars">>, <<"50000_chars">> >>

(***************************************************************************)
(* SQL injection analyzer (scanner/sql.js)                                 *)
(***************************************************************************)

sqlErrorPatterns ==
  << << <<"sql", "syntax">> >>,
     << <<"mysql_", "fetch">> >>,
     << <<"mysql_", "num_rows">> >>,
     << <<"mysql_", "query">> >>,
     << <<"pg_", "query">> >>,
     << <<"pg_", "exec">> >>,
     << <<"sqlite_">> >>,
     << <<"ora-00933">> >>,
     << <<"oracle", "error">> >>,
     << <<"odbc", "sql server", "driver">> >>,
     << <<"sqlserver", "jdbc", "driver">> >>,
     << <<"microsoft", "ole", "db", "provider">> >>,
     << <<"incorrect", "syntax", "near">> >>,
     << <<"unclosed", "quotation", "mark">> >>,
     << <<"quoted", "string", "not", "properly", "terminated">> >>,
     << <<"syntax", "error", "at", "or", "near">> >>,
     << <<"unexpected", "end", "of", "sql", "command">> >>,
     << <<"invalid", "column", "name">> >>,
     << <<"unknown", "column">> >>,
     << <<"no", "such", "column">> >>,
     << <<"column">>, <<"does", "not", "exist">> >>,
     << <<"table">>, <<"doesn't", "exist">> >>,
     << <<"no", "such", "table">> >>,
     << <<"division", "by", "zero">> >>,
     << <<"you", "have", "an", "error", "in", "your", "sql", "syntax">> >>,
     << <<"warning">>, <<"mysql_">> >>,
     << <<"valid", "mysql", "result">> >>,
     << <<"postgresql">>, <<"error">> >>,
     << <<"warning">>, <<"pg_">> >>,
     << <<"warning">>, <<"sqlite_">> >>,
     << <<"sqlite/jdbcdriver">> >>,
     << <<"sqlite.exception">> >>,
     << <<"system.data.sqlite.sqliteexception">> >>,
     << <<"sqlite_error">> >>,
     << <<"sql server">>, <<"driver">> >>,
     << <<"sql server">>, <<"error">> >>,
     << <<"access">>, <<"driver">> >>,
     << <<"jet", "database", "engine">> >>,
     << <<"driver">>, <<"sql server">> >>,
     << <<"sqlstate">> >>,
     << <<"psycopg2">> >>,
     << <<"mysqli">> >>,
     << <<"pdoexception">> >>,
     << <<"db2_">> >>,
     << <<"ifx_">> >>,
     << <<"sybase">> >> >>

sql_successPatterns ==
  << << <<"root:">>, <<":0:0">> >>,
     << <<"admin">>, <<"password">> >>,
     << <<"user">>, <<"password">> >>,
     << <<"login">>, <<"success">>, <<"true">> >>,
     << <<"authentication">>, <<"bypass">> >> >>

sql_wafIndicators ==
  << <<"you", "have", "been", "blocked">>, <<"access", "denied">>,
     <<"forbidden">>, <<"request", "blocked">>, <<"security", "block">>,
     <<"firewall">>, <<"cloudflare">>, <<"akamai">>, <<"imperva">>,
     <<"incapsula">>, <<"sucuri">>, <<"mod_security">>,
     <<"web", "application", "firewall">>, <<"waf">>,
     <<"attack", "detected">>, <<"malicious", "request">>,
     <<"sql", "injection">>, <<"invalid", "request">>,
     <<"request", "rejected">> >>

sql_isWAFBlocked(response, responseBody) ==
  \/ /\ response.status \in {403, 406, 429}
     /\ SomeIncludes(sql_wafIndicators, responseBody)
  \/ Includes(responseBody, <<"cloudflare", "ray", "id">>)
  \/ Includes(responseBody, <<"cf-ray">>)

\* /success|authenticated|welcome|token|session|jwt|bearer/i
sql_authWords ==
  << << <<"success">> >>, << <<"authenticated">> >>, << <<"welcome">> >>,
     << <<"token">> >>, << <<"session">> >>, << <<"jwt">> >>,
     << <<"bearer">> >> >>

\* /stack trace|exception|error.*line \d+/i
sql_verbosePatterns ==
  << << <<"stack", "trace">> >>, << <<"exception">> >>,
     << <<"error">>, <<"line", "42">> >> >>

sql_analyzeResponse(response, payload, originalStatus) ==
  LET responseBody == ResponseBody(response)
      r1 == IF SomeTest(sqlErrorPatterns, responseBody)
            THEN Flag(EmptyResult, "high",
                      "SQL error message detected in response",
                      "VULNERABLE: SQL error exposed")
            ELSE EmptyResult
      r2 == IF SomeTest(sql_successPatterns, responseBody)
            THEN Flag(r1, "high", "Potential data leakage detected",
                      "VULNERABLE: Sensitive data pattern found in response")
            ELSE r1
      r3 == IF /\ \/ Includes(payload, <<"OR", "'1'='1">>)
                  \/ Includes(payload, <<"OR", "\"1\"=\"1">>)
               /\ response.status = 200
               /\ SomeTest(sql_authWords, responseBody)
            THEN Flag(r2, "high", "Potential authentication bypass",
                      "VULNERABLE: SQL injection payload resulted in successful authentication")
            ELSE r2
      r4 == IF /\ originalStatus # Null
               /\ response.status # originalStatus
               /\ response.status = 200
               /\ originalStatus >= 400
            THEN Flag(r3, "medium", "Status code changed from error to success",
                      "SUSPICIOUS: Injection changed response from error to success")
            ELSE r3
      r5 == IF ~r4.vulnerable
            THEN [Push(r4, "No SQL injection indicators found") EXCEPT
                    !.notes = "SAFE: No SQL error messages or injection indicators detected in response"]
            ELSE r4
      r6 == IF SomeTest(sql_verbosePatterns, responseBody)
            THEN Push(r5, "Verbose error messages detected (info disclosure)")
            ELSE r5
  IN  IF sql_isWAFBlocked(response, responseBody)
      THEN [vulnerable |-> FALSE, confidence |-> "high",
            indicators |-> <<"WAF/Firewall blocked the malicious request",
                             "Response status: " \o ToString(response.status)>>,
            notes |-> "PROTECTED: Web Application Firewall detected and blocked the SQL injection attempt. The application is secured by WAF."]
      ELSE IF response.status >= 400 /\ response.status < 500 /\ response.status # 401
      THEN [EmptyResult EXCEPT
              !.indicators = <<"Request rejected with status " \o ToString(response.status)>>,
              !.notes = "Request was rejected - server may have input validation"]
      ELSE r6

(***************************************************************************)
(* XSS analyzer (scanner/xss.js)                                           *)
(***************************************************************************)

dangerousPatterns ==
  << <<"<script>">>, <<"</script>">>, <<"javascript:">>, <<"onerror=">>,
     <<"onload=">>, <<"onclick=">>, <<"onmouseover=">>, <<"onfocus=">>,
     <<"onblur=">>, <<"<img">>, <<"<svg">>, <<"<iframe">> >>

\* decodeURIComponent, fragment by fragment
DecodeURIFragment(t) ==
  CASE t = "%3c" -> "<"
    [] t = "%3e" -> ">"
    [] t = "%0d%0a" -> "\r\n"
    [] OTHER -> t

\* the .replace chain of HTML entities, fragment by fragment
DecodeHtmlFragment(t) ==
  CASE t = "&lt;" -> "<"
    [] t = "&gt;" -> ">"
    [] t = "&amp;" -> "&"
    [] t = "&quot;" -> "\""
    [] t = "&#39;" -> "'"
    [] OTHER -> t

MapFragments(Op(_), s) == [n \in 1..Len(s) |-> Op(s[n])]

isPayloadReflected(responseBody, payload) ==
  \/ Includes(responseBody, payload)
  \/ Includes(responseBody, MapFragments(DecodeURIFragment, payload))
  \/ Includes(responseBody, MapFragments(DecodeHtmlFragment, payload))

\* no dangerous pattern is ever reported
noDangerousContent(responseBody, payload) == <<>>

\* the dangerous patterns present both in the payload and in the body
checkDangerousContent(responseBody, payload) ==
  SelectSeq(dangerousPatterns,
            LAMBDA p : Includes(payload, p) /\ Includes(responseBody, p))

xss_wafIndicators ==
  << <<"you", "have", "been", "blocked">>, <<"access", "denied">>,
     <<"forbidden">>, <<"request", "blocked">>, <<"security", "block">>,
     <<"firewall">>, <<"cloudflare">>, <<"akamai">>, <<"imperva">>,
     <<"incapsula">>, <<"sucuri">>, <<"mod_security">>,
     <<"web", "application", "firewall">>, <<"waf">>,
     <<"attack", "detected">>, <<"malicious", "request">>,
     <<"sql", "injection">>, <<"cross-site", "scripting">>,
     <<"xss", "detected">>, <<"invalid", "request">>,
     <<"request", "rejected">> >>

xss_isWAFBlocked(response, responseBody) ==
  \/ /\ response.status \in {403, 406, 429}
     /\ SomeIncludes(xss_wafIndicators, responseBody)
  \/ Includes(responseBody, <<"cloudflare", "ray", "id">>)
  \/ Includes(responseBody, <<"cf-ray">>)

xss_errorIndicators ==
  << <<"invalid">>, <<"error">>, <<"bad", "request">>, <<"not", "allowed">>,
     <<"rejected">> >>

xss_securityHeaders ==
  <<"x-xss-protection", "content-security-policy", "x-content-type-options">>

xss_analyzeResponse(response, payload, originalStatus) ==
  LET responseBody == ResponseBody(response)
      dangerousContent == checkDangerousContent(responseBody, payload)
      r1 == IF isPayloadReflected(responseBody, payload)
            THEN IF Len(dangerousContent) > 0
                 THEN [Flag(EmptyResult, "high",
                            "Payload reflected without sanitization",
                            "VULNERABLE: XSS payload was reflected in the response without proper encoding. This could allow script execution.")
                         EXCEPT !.indicators = Append(@, "Dangerous content found")]
                 ELSE Flag(EmptyResult, "medium", "Payload reflected in response",
                           "Payload found in response - verify if properly escaped in browser context")
            ELSE [Push(EmptyResult, "Payload was not reflected in response") EXCEPT
                    !.notes = "SAFE: The XSS payload was not reflected in the server response"]
      r2 == IF ~r1.vulnerable /\ response.status = 200 /\ Includes(responseBody, payload)
            THEN Flag(r1, "high", "Exact payload found in 200 OK response",
                      "VULNERABLE: The exact XSS payload appears in a successful response")
            ELSE r1
      missingHeaders == SelectSeq(xss_securityHeaders,
                                  LAMBDA h : Header(response, h) = <<>>)
      r3 == IF Len(missingHeaders) > 0 /\ r2.vulnerable
            THEN Push(r2, "Missing security headers")
            ELSE r2
  IN  IF xss_isWAFBlocked(response, responseBody)
      THEN [vulnerable |-> FALSE, confidence |-> "high",
            indicators |-> <<"WAF/Firewall blocked the malicious request",
                             "Response status: " \o ToString(response.status)>>,
            notes |-> "PROTECTED: Web Application Firewall detected and blocked the XSS attempt. The application is secured by WAF."]
      ELSE IF /\ response.status >= 400 /\ response.status < 600
              /\ SomeIncludes(xss_errorIndicators, responseBody)
      THEN [EmptyResult EXCEPT
              !.indicators = <<"Request rejected with status " \o ToString(response.status)>>,
              !.notes = "Request was rejected by the server - input validation may be in place"]
      ELSE r3

(***************************************************************************)
(* Command injection analyzer (scanner/commandInjection.js)                *)
(***************************************************************************)

commandOutputPatterns ==
  << << <<"root:">>, <<":0:0", ":">> >>,
     << <<"bin/", "bash">> >>,
     << <<"bin/", "sh">> >>,
     << <<"nobody:">>, <<":65534">> >>,
     << <<"daemon:">>, <<":1:1">> >>,
     << <<"uid=0">>, <<"gid=0">> >>,
     << <<"linux">>, <<"5.15.0">> >>,
     << <<"total", "8", "drwx">> >>,
     << <<"drwxr-xr-x">> >>,
     << <<"-rw-r--r--">> >>,
     << <<"/home/", "user">> >>,
     << <<"/usr/", "bin">> >>,
     << <<"/var/", "log">> >>,
     << <<"volume", "serial", "number">> >>,
     << <<"directory", "of">> >>,
     << <<"01/02/2024">> >>,
     << <<"windows", "ip", "configuration">> >>,
     << <<"ethernet", "adapter">> >>,
     << <<"c:\\windows">> >>,
     << <<"c:\\users">> >>,
     << <<"program", "files">> >>,
     << <<"system32">> >>,
     << <<"[boot loader]">> >>,
     << <<"[operating systems]">> >>,
     << <<"[fonts]">> >>,
     << <<"[extensions]">> >>,
     << <<"computername=">> >>,
     << <<"username=">> >>,
     << <<"userdomain=">> >>,
     << <<"command", "not", "found">> >>,
     << <<"not", "recognized", "as", "an", "internal", "or", "external", "command">> >>,
     << <<"no", "such", "file", "or", "directory">> >>,
     << <<"permission", "denied">> >>,
     << <<"access", "is", "denied">> >>,
     << <<"cannot", "find", "the", "path">> >>,
     << <<"is", "not", "recognized", "as", "a", "cmdlet">> >> >>

\* compared after toLowerCase on both sides
timingKeywords == << <<"sleep">>, <<"waitfor">>, <<"ping -c">>, <<"ping -n">> >>

cmd_errorPatterns ==
  << << <<"sh:">>, <<":", "not", "found">> >>,
     << <<"bash:">>, <<":", "command", "not", "found">> >>,
     << <<"cmd.exe">>, <<"is", "not", "recognized">> >>,
     << <<"/", "bin/">>, <<":", "no", "such", "file">> >>,
     << <<"cannot", "execute", "binary", "file">> >>,
     << <<"syntax", "error", "near", "unexpected", "token">> >> >>

cmd_wafIndicators ==
  << <<"you", "have", "been", "blocked">>, <<"access", "denied">>,
     <<"forbidden">>, <<"request", "blocked">>, <<"firewall">>,
     <<"cloudflare">>, <<"akamai">>, <<"imperva">>, <<"waf">>,
     <<"attack", "detected">>, <<"malicious", "request">>,
     <<"command", "injection">>, <<"invalid", "request">> >>

cmd_isWAFBlocked(response, responseBody) ==
  \/ /\ response.status \in {403, 406, 429}
     /\ SomeIncludes(cmd_wafIndicators, responseBody)
  \/ Includes(responseBody, <<"cloudflare", "ray", "id">>)

\* payload.toLowerCase()
LowerPayload(payload) ==
  [n \in 1..Len(payload) |->
     CASE payload[n] = "OR" -> "or"
       [] payload[n] = "UNION" -> "union"
       [] payload[n] = "SELECT" -> "select"
       [] payload[n] = "SLEEP(5)--" -> "sleep(5)--"
       [] payload[n] = "DROP" -> "drop"
       [] payload[n] = "TABLE" -> "table"
       [] OTHER -> payload[n]]

cmd_analyzeResponse(response, payload, originalStatus, responseTime) ==
  LET responseBody == ResponseBody(response)
      r1 == IF SomeTest(commandOutputPatterns, responseBody)
            THEN Flag(EmptyResult, "high", "Command output detected in response",
                      "VULNERABLE: System command output found")
            ELSE EmptyResult
      isTimingPayload == SomeIncludes(timingKeywords, LowerPayload(payload))
      r2 == IF responseTime # Null /\ isTimingPayload /\ responseTime > 4500
            THEN Flag(r1, "high", "Time-based command injection detected",
                      "VULNERABLE: Response delayed - command executed")
            ELSE r1
      r3 == IF SomeTest(cmd_errorPatterns, responseBody)
            THEN Flag(r2, "medium", "Shell error message in response",
                      "VULNERABLE: Shell error indicates command was processed")
            ELSE r2
      r4 == IF ~r3.vulnerable
            THEN [Push(r3, "No command injection indicators found") EXCEPT
                    !.notes = "SAFE: No command execution indicators detected in response"]
            ELSE r3
  IN  IF cmd_isWAFBlocked(response, responseBody)
      THEN [vulnerable |-> FALSE, confidence |-> "high",
            indicators |-> <<"WAF/Firewall blocked the malicious request">>,
            notes |-> "PROTECTED: WAF detected and blocked the command injection attempt."]
      ELSE IF response.status >= 400 /\ response.status < 500
      THEN [EmptyResult EXCEPT
              !.indicators = <<"Request rejected with status " \o ToString(response.status)>>,
              !.notes = "Request was rejected - input validation may be in place"]
      ELSE r4

(***************************************************************************)
(* Path traversal analyzer (scanner/pathTraversal.js)                      *)
(***************************************************************************)

fileContentPatterns ==
  << << <<"root:">>, <<":0:0", ":">> >>,
     << <<"daemon:">>, <<":1:1", ":">> >>,
     << <<"nobody:">>, <<":65534", ":">> >>,
     << <<"shadow:">>, <<":*:">> >>,
     << <<"bin/", "bash">> >>,
     << <<"bin/", "sh">> >>,
     << <<"localhost">> >>,
     << <<"127.0.0.1">> >>,
     << <<"nameserver">> >>,
     << <<"[global]">> >>,
     << <<"[boot loader]">> >>,
     << <<"[operating systems]">> >>,
     << <<"[fonts]">> >>,
     << <<"[extensions]">> >>,
     << <<"[mail]">> >>,
     << <<";", "for", "16-bit", "app", "support">> >>,
     << <<"[drivers]">> >>,
     << <<"[386enh]">> >>,
     << <<"msdos.sys">> >>,
     << <<"io.sys">> >>,
     << <<"db_password">> >>,
     << <<"db_host">> >>,
     << <<"api_key">> >>,
     << <<"secret_key">> >>,
     << <<"aws_access">> >>,
     << <<"mysql_password">> >>,
     << <<"postgres_password">> >>,
     << <<"php">> >>,
     << <<"xml">> >>,
     << <<"<?xml", "version">> >>,
     << <<"<!doctype">> >>,
     << <<"package.json">> >>,
     << <<"\"dependencies\"">> >>,
     << <<"\"devdependencies\"">> >> >>

path_errorPatterns ==
  << << <<"no", "such", "file", "or", "directory">> >>,
     << <<"file", "not", "found">> >>,
     << <<"cannot", "find", "the", "file">> >>,
     << <<"access", "denied">> >>,
     << <<"permission", "denied">> >>,
     << <<"failed", "to", "open", "stream">> >>,
     << <<"include():", "failed", "opening">> >>,
     << <<"require():", "failed", "opening">> >>,
     << <<"fopen():", "failed">> >>,
     << <<"file_get_contents():", "failed">> >>,
     << <<"is", "not", "a", "valid", "path">> >>,
     << <<"invalid", "file", "path">> >>,
     << <<"directory", "traversal">> >>,
     << <<"path", "traversal">> >> >>

path_wafIndicators ==
  << <<"you", "have", "been", "blocked">>, <<"access", "denied">>,
     <<"forbidden">>, <<"request", "blocked">>, <<"firewall">>,
     <<"cloudflare">>, <<"akamai">>, <<"imperva">>, <<"waf">>,
     <<"attack", "detected">>, <<"malicious", "request">>,
     <<"path", "traversal">>, <<"directory", "traversal">>,
     <<"invalid", "request">> >>

path_isWAFBlocked(response, responseBody) ==
  \/ /\ response.status \in {403, 406, 429}
     /\ SomeIncludes(path_wafIndicators, responseBody)
  \/ Includes(responseBody, <<"cloudflare", "ray", "id">>)

path_binaryTypes == << <<"octet-stream">>, <<"application/pdf">>, <<"image/">> >>

\* the behaviour change read the wrong way round: 200 before, 404 after
path_statusSwapped(response, originalStatus) ==
  originalStatus # Null /\ response.status = 404 /\ originalStatus = 200

\* if (originalStatus !== null) { if (response.status === 200 && originalStatus === 404)
path_behaviorChange(response, originalStatus) ==
  originalStatus # Null /\ response.status = 200 /\ originalStatus = 404

path_analyzeResponse(response, payload, originalStatus) ==
  LET responseBody == ResponseBody(response)
      r1 == IF SomeTest(fileContentPatterns, responseBody)
            THEN Flag(EmptyResult, "high", "System/config file content detected",
                      "VULNERABLE: System file content found")
            ELSE EmptyResult
      r2 == IF SomeTest(path_errorPatterns, responseBody) /\ ~r1.vulnerable
            THEN [Push(r1, "Path-related error message detected") EXCEPT
                    !.notes = "INFO: Error messages may indicate file system interaction"]
            ELSE r1
      contentType == Header(response, "content-type")
      r3 == IF response.status = 200 /\ SomeIncludes(path_binaryTypes, contentType)
            THEN Flag(r2, "medium", "Binary file content returned",
                      "SUSPICIOUS: Binary content returned - possible file disclosure")
            ELSE r2
      r4 == IF path_behaviorChange(response, originalStatus)
            THEN Flag(r3, "medium", "File found after path traversal",
                      "VULNERABLE: Traversal payload changed 404 to 200")
            ELSE r3
      r5 == IF ~r4.vulnerable
            THEN [Push(r4, "No path traversal indicators found") EXCEPT
                    !.notes = "SAFE: No system file content detected in response"]
            ELSE r4
  IN  IF path_isWAFBlocked(response, responseBody)
      THEN [vulnerable |-> FALSE, confidence |-> "high",
            indicators |-> <<"WAF/Firewall blocked the malicious request">>,
            notes |-> "PROTECTED: WAF detected and blocked the path traversal attempt."]
      ELSE IF response.status \in {400, 403, 404}
      THEN [EmptyResult EXCEPT
              !.indicators = <<"Request rejected/not found with status " \o ToString(response.status)>>,
              !.notes = "SAFE: Path traversal was blocked or file not found"]
      ELSE r5

(***************************************************************************)
(* NoSQL injection analyzer (scanner/nosqlInjection.js)                    *)
(***************************************************************************)

\* String.length in characters: "<filler>" stands for 600 characters of
\* text that matches no pattern, any other fragment for 8 characters
RECURSIVE CharLength(_)
CharLength(s) ==
  IF s = <<>> THEN 0
  ELSE (IF Head(s) = "<filler>" THEN 600 ELSE 8) + CharLength(Tail(s))

vulnerabilityPatterns ==
  << << <<"mongodb">> >>, << <<"mongoose">> >>, << <<"bson">> >>,
     << <<"objectid">> >>, << <<"cannot", "read", "property">> >>,
     << <<"unexpected", "token">> >>, << <<"syntaxerror">>, <<"json">> >>,
     << <<"cast">>, <<"error">> >>, << <<"invalid">>, <<"operator">> >>,
     << <<"$where">> >>, << <<"$regex">> >>, << <<"query">>, <<"failed">> >> >>

nosql_successPatterns ==
  << << <<"\"_id\"", ":">> >>,
     << <<"\"password\"", ":">> >>,
     << <<"\"email\"", ":">> >>,
     << <<"[\"">>, <<"\"]">> >>,
     << <<"{\"">>, <<"\":">>, <<"}">> >> >>

nosql_wafIndicators ==
  << <<"you", "have", "been", "blocked">>, <<"access", "denied">>,
     <<"forbidden">>, <<"firewall">>, <<"cloudflare">>, <<"waf">>,
     <<"attack", "detected">>, <<"malicious">> >>

nosql_isWAFBlocked(response, responseBody) ==
  \/ /\ response.status \in {403, 406, 429}
     /\ SomeIncludes(nosql_wafIndicators, responseBody)
  \/ Includes(responseBody, <<"cloudflare", "ray", "id">>)

\* /token|session|jwt|success|authenticated/i
nosql_authWords ==
  << << <<"token">> >>, << <<"session">> >>, << <<"jwt">> >>,
     << <<"success">> >>, << <<"authenticated">> >> >>

nosql_analyzeResponse(response, payload, originalStatus) ==
  LET responseBody == ResponseBody(response)
      r1 == IF SomeTest(vulnerabilityPatterns, responseBody)
            THEN Flag(EmptyResult, "high", "NoSQL/MongoDB error message detected",
                      "VULNERABLE: Database error exposed in response")
            ELSE EmptyResult
      r2 == IF /\ response.status = 200
               /\ SomeTest(nosql_successPatterns, responseBody)
               /\ CharLength(responseBody) > 500
               /\ Includes(payload, <<"\"$ne\"">>)
            THEN Flag(r1, "medium", "Potential data leakage with NoSQL operators",
                      "SUSPICIOUS: Large response with injection payload")
            ELSE r1
      r3 == IF /\ \/ Includes(payload, <<"\"$ne\"">>)
                  \/ Includes(payload, <<"\"$gt\"">>)
               /\ response.status = 200
               /\ SomeTest(nosql_authWords, responseBody)
            THEN Flag(r2, "high", "Potential authentication bypass",
                      "VULNERABLE: NoSQL injection may have bypassed authentication")
            ELSE r2
      r4 == IF ~r3.vulnerable
            THEN [Push(r3, "No NoSQL injection indicators found") EXCEPT
                    !.notes = "SAFE: No NoSQL injection vulnerabilities detected"]
            ELSE r3
  IN  IF nosql_isWAFBlocked(response, responseBody)
      THEN [EmptyResult EXCEPT
              !.indicators = <<"WAF/Firewall blocked the request">>,
              !.notes = "PROTECTED: Request was blocked by security controls"]
      ELSE IF response.status >= 400 /\ response.status < 500
      THEN [EmptyResult EXCEPT
              !.indicators = <<"Request rejected with status " \o ToString(response.status)>>,
              !.notes = "SAFE: Server rejected the malformed request"]
      ELSE r4

(***************************************************************************)
(* Header injection analyzer (scanner/headerInjection.js)                  *)
(***************************************************************************)

header_wafIndicators ==
  << <<"you", "have", "been", "blocked">>, <<"access", "denied">>,
     <<"forbidden">>, <<"firewall">>, <<"cloudflare">>, <<"waf">>,
     <<"attack", "detected">>, <<"malicious">> >>

header_isWAFBlocked(response, responseBody) ==
  \/ /\ response.status \in {403, 406, 429}
     /\ SomeIncludes(header_wafIndicators, responseBody)
  \/ Includes(responseBody, <<"cloudflare", "ray", "id">>)

header_analyzeResponse(response, payload, originalStatus) ==
  LET responseBody == ResponseBody(response)
      \* the set-cookie header is an array of cookie strings: Array.includes
      setCookie == Header(response, "set-cookie")
      r1 == IF /\ \/ Includes(payload, <<"%0d%0a">>)
                  \/ Includes(payload, <<"\r\n">>)
               /\ \/ Includes(setCookie, <<"malicious">>)
                  \/ Includes(setCookie, <<"evil">>)
            THEN Flag(EmptyResult, "high", "CRLF Injection - Response splitting successful",
                      "VULNERABLE: Attacker can inject arbitrary headers")
            ELSE EmptyResult
      r2 == IF /\ \/ Includes(payload, <<"<script>">>)
                  \/ Includes(payload, <<"onerror=">>)
               /\ Includes(responseBody, payload)
            THEN Flag(r1, "high", "Header value reflected in response (XSS)",
                      "VULNERABLE: Header value reflected without sanitization")
            ELSE r1
      r3 == IF /\ \/ payload = <<"evil.com">>
                  \/ Includes(payload, <<"127.0.0.1">>)
               /\ Includes(responseBody, payload)
            THEN Flag(r2, "high", "Host header value reflected in response",
                      "VULNERABLE: Host header is used unsafely in response")
            ELSE r2
      r4 == IF ~r3.vulnerable
            THEN [Push(r3, "Header injection payload rejected or not reflected") EXCEPT
                    !.notes = "SAFE: No header injection vulnerabilities detected"]
            ELSE r3
  IN  IF header_isWAFBlocked(response, responseBody)
      THEN [EmptyResult EXCEPT
              !.indicators = <<"WAF/Firewall blocked the request">>,
              !.notes = "PROTECTED: Header manipulation was blocked"]
      ELSE r4

(***************************************************************************)
(* Rate limiting analyzer (scanner/rateLimiting.js)                        *)
(***************************************************************************)

rate_wafIndicators ==
  << <<"you", "have", "been", "blocked">>, <<"access", "denied">>,
     <<"forbidden">>, <<"firewall">>, <<"cloudflare">>, <<"waf">>,
     <<"rate", "limit">>, <<"too", "many", "requests">>, <<"throttle">>,
     <<"slow", "down">>, <<"try", "again", "later">> >>

rate_isWAFBlocked(response, responseBody) ==
  \/ response.status \in {403, 429, 503}
  \/ SomeIncludes(rate_wafIndicators, responseBody)

rateLimitHeaders ==
  <<"x-ratelimit-limit", "x-ratelimit-remaining", "x-ratelimit-reset",
    "retry-after", "x-rate-limit-limit", "ratelimit-limit">>

rate_analyzeResponse(response, payload, originalStatus, responseTime) ==
  LET responseBody == ResponseBody(response)
      foundRateLimitHeaders ==
        SelectSeq(rateLimitHeaders, LAMBDA h : Header(response, h) # <<>>)
      \* remaining !== undefined, remaining being the first header || the second
      remainingDefined == "x-rate-limit-remaining" \in DOMAIN response.headers
                          \/ Header(response, "x-ratelimit-remaining") # <<>>
      r1 == IF Len(foundRateLimitHeaders) > 0
            THEN [(IF remainingDefined
                   THEN Push(Push(EmptyResult, "Rate limit headers present"),
                             "Remaining requests")
                   ELSE Push(EmptyResult, "Rate limit headers present"))
                    EXCEPT !.notes = "INFO: Rate limiting headers detected - server may have protection"]
            ELSE IF response.status = 200
            THEN [Push(EmptyResult, "No rate limit headers in response") EXCEPT
                    !.notes = "WARNING: Consider implementing rate limiting for this endpoint"]
            ELSE EmptyResult
  IN  IF response.status = 429
      THEN [vulnerable |-> FALSE, confidence |-> "high",
            indicators |-> <<"Rate limiting is active (429 Too Many Requests)">>,
            notes |-> "PROTECTED: Server properly implements rate limiting"]
      ELSE IF rate_isWAFBlocked(response, responseBody)
      THEN [vulnerable |-> FALSE, confidence |-> "high",
            indicators |-> <<"Bot/DDoS protection is active">>,
            notes |-> "PROTECTED: Server has anti-bot/rate limiting measures"]
      ELSE r1

(***************************************************************************)
(* Malformed payload analyzer (scanner/malformedPayload.js)                *)
(***************************************************************************)

verboseErrorPatterns ==
  << << <<"stack", "trace">> >>,
     << <<"at", "handler", "(">> >>,
     << <<"exception">> >>,
     << <<"error">>, <<"line", "42">> >>,
     << <<"syntax">>, <<"error">> >>,
     << <<"undefined">>, <<"property">> >>,
     << <<"cannot", "read">> >>,
     << <<"type">>, <<"error">> >>,
     << <<"internal", "server", "error">> >>,
     << <<".js:10:5">> >>,
     << <<"node_modules">> >> >>

malformed_analyzeResponse(response, payload, originalStatus) ==
  LET responseBody == ResponseBody(response)
      verbose == SomeTest(verboseErrorPatterns, responseBody)
  IN  IF response.status = 400
      THEN IF verbose
           THEN [EmptyResult EXCEPT
                   !.indicators = <<"Server returns 400 Bad Request for malformed data",
                                    "Error response contains verbose debug information">>,
                   !.notes = "WARNING: Error messages may leak implementation details"]
           ELSE [EmptyResult EXCEPT
                   !.indicators = <<"Server returns 400 Bad Request for malformed data">>,
                   !.notes = "GOOD: Server properly validates input"]
      ELSE IF response.status = 500
      THEN IF verbose
           THEN [vulnerable |-> TRUE, confidence |-> "high",
                 indicators |-> <<"Server crashed with 500 error",
                                  "Stack trace or debug info exposed">>,
                 notes |-> "VULNERABLE: Server exposes internal error details"]
           ELSE [vulnerable |-> TRUE, confidence |-> "medium",
                 indicators |-> <<"Server crashed with 500 error">>,
                 notes |-> "VULNERABLE: Malformed input causes server error"]
      ELSE IF verbose
      THEN Flag(EmptyResult, "medium", "Verbose error information detected",
                "VULNERABLE: Server exposes implementation details")
      ELSE [Push(EmptyResult, "Server handled malformed payload gracefully") EXCEPT
              !.notes = "SAFE: Server responded with " \o ToString(response.status)]

(***************************************************************************)
(* HTTP method analyzer (scanner/httpMethodTest.js)                        *)
(***************************************************************************)

webdavMethods == <<"PROPFIND", "PROPPATCH", "MKCOL", "COPY", "MOVE">>

dangerousMethods == <<"TRACE", "TRACK", "DEBUG">>

method_analyzeResponse(response, payload, originalStatus) ==
  LET testedMethod == payload
      allow == Header(response, "allow")
      allowedDangerous ==
        SelectSeq(dangerousMethods, LAMBDA m : Includes(allow, <<m>>))
      optionsOk == testedMethod = <<"OPTIONS">> /\ response.status \in {200, 204}
      r1 == IF optionsOk THEN Push(EmptyResult, "OPTIONS method is allowed")
            ELSE EmptyResult
      r2 == IF optionsOk /\ allow # <<>> THEN Push(r1, "Allowed") ELSE r1
      r3 == IF optionsOk /\ allow # <<>> /\ Len(allowedDangerous) > 0
            THEN Flag(r2, "medium", "Dangerous methods allowed",
                      "WARNING: Review allowed HTTP methods")
            ELSE r2
      r4 == IF optionsOk /\ r3.notes = ""
            THEN [r3 EXCEPT !.notes = "INFO: OPTIONS reveals allowed methods"]
            ELSE r3
      r5 == IF /\ \E n \in 1..Len(webdavMethods) : testedMethod = <<webdavMethods[n]>>
               /\ response.status \in {200, 207}
            THEN Flag(r4, "high", "WebDAV method is enabled",
                      "VULNERABLE: WebDAV methods should be disabled")
            ELSE r4
      r6 == IF testedMethod = <<"DEBUG">> /\ response.status = 200
            THEN Flag(r5, "high", "DEBUG method is enabled",
                      "VULNERABLE: Debug endpoint exposed")
            ELSE r5
      r7 == IF Len(r6.indicators) = 0
            THEN [Push(r6, "method returned " \o ToString(response.status)) EXCEPT
                    !.notes = "SAFE: Server handled HTTP method appropriately"]
            ELSE r6
  IN  IF response.status = 405
      THEN [EmptyResult EXCEPT
              !.indicators = IF allow # <<>>
                             THEN <<"Server properly rejects method with 405", "Allowed methods">>
                             ELSE <<"Server properly rejects method with 405">>,
              !.notes = "GOOD: Server enforces allowed HTTP methods"]
      ELSE IF testedMethod \in {<<"TRACE">>, <<"TRACK">>} /\ response.status = 200
      THEN [vulnerable |-> TRUE, confidence |-> "high",
            indicators |-> <<"method is enabled">>,
            notes |-> "VULNERABLE: TRACE enabled - Cross-Site Tracing (XST) possible"]
      ELSE r7

(***************************************************************************)
(* Payload size analyzer (scanner/payloadSize.js)                          *)
(***************************************************************************)

size_analyzeResponse(response, payload, originalStatus, responseTime) ==
  LET r1 == IF responseTime > 10000
            THEN Flag(EmptyResult, "medium", "Very slow response",
                      "VULNERABLE: Large payloads cause significant slowdown")
            ELSE IF responseTime > 5000
            THEN [Push(EmptyResult, "Slow response") EXCEPT
                    !.notes = "WARNING: Large payloads cause noticeable slowdown"]
            ELSE EmptyResult
      r2 == IF response.status = 200
            THEN [Push(r1, "Server accepted payload") EXCEPT
                    !.notes = "SAFE: Server handled large payload"]
            ELSE r1
  IN  IF response.status = 413
      THEN [EmptyResult EXCEPT
              !.indicators = <<"Server returns 413 Payload Too Large">>,
              !.notes = "GOOD: Server enforces payload size limits"]
      ELSE IF response.status = 400
      THEN [EmptyResult EXCEPT
              !.indicators = <<"Server rejects oversized payload with 400">>,
              !.notes = "GOOD: Server validates input size"]
      ELSE IF response.status \in {408, 504}
      THEN [vulnerable |-> TRUE, confidence |-> "medium",
            indicators |-> <<"Request timed out with large payload">>,
            notes |-> "VULNERABLE: Large payloads may cause DoS"]
      ELSE IF response.status \in {500, 502, 503}
      THEN [vulnerable |-> TRUE, confidence |-> "high",
            indicators |-> <<"Server error with large payload">>,
            notes |-> "VULNERABLE: Large payload causes server error - DoS vector"]
      ELSE r2

(***************************************************************************)
(* The analyzer registry (scanner/index.js, `scanners`)                    *)
(***************************************************************************)

scanners ==
  <<"SQL Injection", "XSS", "Command Injection", "Path Traversal",
    "NoSQL Injection", "Header Injection", "Rate Limiting",
    "Malformed Payload", "HTTP Method", "Payload Size">>

getPayloads(type) ==
  CASE type = "SQL Injection" -> sqlInjection
    [] type = "XSS" -> xss
    [] type = "Command Injection" -> commandInjection
    [] type = "Path Traversal" -> pathTraversal
    [] type = "NoSQL Injection" -> nosqlInjection
    [] type = "Header Injection" -> headerInjection
    [] type = "Rate Limiting" -> rateLimitPayloads
    [] type = "Malformed Payload" -> malformedPayloads
    [] type = "HTTP Method" -> httpMethods
    [] type = "Payload Size" -> sizeTests

getSeverity(type) ==
  CASE type \in {"SQL Injection", "Command Injection", "NoSQL Injection"} -> "Critical"
    [] type \in {"XSS", "Path Traversal", "Header Injection"} -> "High"
    [] type \in {"Rate Limiting", "HTTP Method", "Payload Size"} -> "Medium"
    [] type = "Malformed Payload" -> "Low"

\* scanner.analyzeResponse(response, payload, baseline?.status, responseTime)
analyzeResponse(type, response, payload, originalStatus, responseTime) ==
  CASE type = "SQL Injection" -> sql_analyzeResponse(response, payload, originalStatus)
    [] type = "XSS" -> xss_analyzeResponse(response, payload, originalStatus)
    [] type = "Command Injection" ->
         cmd_analyzeResponse(response, payload, originalStatus, responseTime)
    [] type = "Path Traversal" -> path_analyzeResponse(response, payload, originalStatus)
    [] type = "NoSQL Injection" -> nosql_analyzeResponse(response, payload, originalStatus)
    [] type = "Header Injection" -> header_analyzeResponse(response, payload, originalStatus)
    [] type = "Rate Limiting" ->
         rate_analyzeResponse(response, payload, originalStatus, responseTime)
    [] type = "Malformed Payload" ->
         malformed_analyzeResponse(response, payload, originalStatus)
    [] type = "HTTP Method" -> method_analyzeResponse(response, payload, originalStatus)
    [] type = "Payload Size" ->
         size_analyzeResponse(response, payload, originalStatus, responseTime)

(***************************************************************************)
(* Inputs of the analyzers: the responses a target can answer with         *)
(***************************************************************************)

Statuses == {200, 207, 400, 401, 403, 404, 405, 406, 408, 413, 429, 500, 503}

Bodies ==
  { <<"ok">>,
    NoData,
    <<"access", "denied">>,
    <<"forbidden", "exception">>,
    <<"invalid", "request">>,
    <<"you", "have", "an", "error", "in", "your", "sql", "syntax">>,
    <<"sql", "syntax", "cf-ray">>,
    <<"cloudflare", "ray", "id">>,
    <<"bash:", "ls", ":", "command", "not", "found">>,
    <<"uid=0", "gid=0">>,
    <<"uid=0", "gid=0", "cloudflare", "ray", "id">>,
    <<"cannot", "execute", "binary", "file">>,
    <<"root:", "x", ":0:0", ":", "root">>,
    <<"stack", "trace", "exception">>,
    <<"<script>", "alert(1)", "</script>">>,
    <<"<p>", "<script>", "alert(1)", "</script>", "cf-ray", "</p>">>,
    <<"{\"", "token", "\":", "\"abc\"", "}">>,
    <<"{\"", "\"_id\"", ":", "1", "\":", "<filler>", "}">> }

\* response headers: none; a binary content type; the headers the method,
\* rate-limit and header-injection analyzers read (each reads its own)
HeaderSets ==
  { <<>>,
    [h \in {"content-type"} |-> <<"application/", "octet-stream">>],
    [h \in {"allow", "x-ratelimit-limit", "set-cookie"} |->
       CASE h = "allow" -> <<"GET", "TRACE">>
         [] h = "x-ratelimit-limit" -> <<"100">>
         [] h = "set-cookie" -> <<"malicious">>] }

Responses ==
  [status : Statuses, data : Bodies, headers : HeaderSets]

BaselineStatuses == {Null, 200, 404, 500}

ResponseTimes == {120, 5200, 10500}

PayloadsOf(type) == {getPayloads(type)[n] : n \in 1..Len(getPayloads(type))}

AnalyzerTypes == {scanners[n] : n \in 1..Len(scanners)}

(***************************************************************************)
(* Endpoint descriptors and the object heap                                *)
(*                                                                         *)
(* An endpoint object holds references to its headers, body and            *)
(* queryParams objects.  The heap is the sequence of allocated objects, a  *)
(* reference is an index into it, 0 is an absent (undefined / null)        *)
(* object.  An object is the insertion-ordered sequence of its entries.    *)
(***************************************************************************)

Keys(m) == [n \in 1..Len(m) |-> m[n].k]

HasKey(m, key) == \E n \in 1..Len(m) : m[n].k = key

\* obj[key] = value: an existing key keeps its place, a new key is appended
MapSet(m, key, value) ==
  IF HasKey(m, key)
  THEN [n \in 1..Len(m) |-> IF m[n].k = key THEN [k |-> key, v |-> value] ELSE m[n]]
  ELSE Append(m, [k |-> key, v |-> value])

Alloc(h, m) == [heap |-> Append(h, m), ref |-> Len(h) + 1]

\* a copy of the endpoint object alone: its headers, body and queryParams
\* stay the objects of the original
ShallowClone(h, endpoint) == [heap |-> h, ep |-> endpoint]

\* JSON.parse(JSON.stringify(endpoint)): a new endpoint object whose headers,
\* body and queryParams are new objects with the same entries; strings, null
\* and absent properties come out as they went in
JSONClone(h, endpoint) ==
  LET nh == IF endpoint.headers = 0 THEN 0 ELSE 1
      nb == IF endpoint.body = 0 THEN 0 ELSE 1
  IN  [heap |-> h \o (IF endpoint.headers = 0 THEN <<>> ELSE <<h[endpoint.headers]>>)
                  \o (IF endpoint.body = 0 THEN <<>> ELSE <<h[endpoint.body]>>)
                  \o (IF endpoint.queryParams = 0 THEN <<>> ELSE <<h[endpoint.queryParams]>>),
       ep |-> [endpoint EXCEPT
                 !.headers = IF @ = 0 THEN 0 ELSE Len(h) + 1,
                 !.body = IF @ = 0 THEN 0 ELSE Len(h) + nh + 1,
                 !.queryParams = IF @ = 0 THEN 0 ELSE Len(h) + nh + nb + 1]]

\* x.prop = x.prop || {}
OrEmpty(h, ref) == IF ref = 0 THEN Alloc(h, <<>>) ELSE [heap |-> h, ref |-> ref]

\* the value `undefined` of a url property that is missing
UndefinedUrl == <<"<undefined>">>

\* encodeURIComponent, fragment by fragment (letters, digits and - _ . ! ~ * ' ( )
\* are kept, every other character is percent-encoded)
EncodeURIFragment(t) ==
  CASE t = "<script>" -> "%3Cscript%3E"
    [] t = "</script>" -> "%3C%2Fscript%3E"
    [] t = "'1'='1" -> "'1'%3D'1"
    [] t = "\"" -> "%22"
    [] t = "\"1\"=\"1" -> "%221%22%3D%221%22"
    [] t = ";" -> "%3B"
    [] t = "|" -> "%7C"
    [] t = "../../../" -> "..%2F..%2F..%2F"
    [] t = "etc/passwd" -> "etc%2Fpasswd"
    [] OTHER -> t

encodeURIComponent(payload) ==
  [n \in 1..Len(payload) |-> EncodeURIFragment(payload[n])]

(***************************************************************************)
(* Injection strategy (scanner/index.js, injectPayload).  The accumulator  *)
(* acc holds the heap, the variants pushed so far (injectedEndpoints) and  *)
(* whether a TypeError was thrown.                                         *)
(***************************************************************************)

\* the value of F at x, with x evaluated once: a statement of the code reads
\* the variables the statements before it have assigned
Then(x, F(_)) == CHOOSE r \in {F(v) : v \in {x}} : TRUE

\* one step of Object.keys(obj).forEach: clone; clone[field][key] = payload; push
InjectKey(acc, endpoint, payload, field, key) ==
  LET Step(c) ==
        LET ref == IF field = "queryParams" THEN c.ep.queryParams ELSE c.ep.body
            label == IF field = "queryParams" THEN "Query param: " \o key
                     ELSE "Body param: " \o key
        IN  [acc EXCEPT
               !.heap = [c.heap EXCEPT ![ref] = MapSet(@, key, payload)],
               !.out = Append(@, [c.ep EXCEPT !.injectionPoint = label])]
  IN  Then(JSONClone(acc.heap, endpoint), Step)

RECURSIVE InjectKeys(_, _, _, _, _, _)
\* Object.keys(obj).forEach(key => { ... })
InjectKeys(acc, endpoint, payload, field, keys, n) ==
  IF n > Len(keys) THEN acc
  ELSE LET Rest(a) == InjectKeys(a, endpoint, payload, field, keys, n + 1)
       IN  Then(InjectKey(acc, endpoint, payload, field, keys[n]), Rest)

\* if (location === 'query' || location === 'all')
queryRule(acc, endpoint, payload, location) ==
  IF location \notin {"query", "all"} THEN acc
  ELSE LET keys == IF endpoint.queryParams = 0 THEN <<>>
                   ELSE Keys(acc.heap[endpoint.queryParams])
           Added(a1) ==
             LET c == JSONClone(a1.heap, endpoint)
                 q == OrEmpty(c.heap, c.ep.queryParams)
             IN  [a1 EXCEPT
                    !.heap = [q.heap EXCEPT ![q.ref] = MapSet(@, "q", payload)],
                    !.out = Append(@, [c.ep EXCEPT
                                         !.queryParams = q.ref,
                                         !.injectionPoint = "Query param: q (injected)"])]
       IN  Then(InjectKeys(acc, endpoint, payload, "queryParams", keys, 1), Added)

\* the body rule without its added `input` parameter
bodyRuleKeysOnly(acc, endpoint, payload, location) ==
  IF location \notin {"body", "all"} THEN acc
  ELSE LET keys == IF endpoint.bodyKind = "object"
                   THEN Keys(acc.heap[endpoint.body]) ELSE <<>>
       IN  InjectKeys(acc, endpoint, payload, "body", keys, 1)

\* if (location === 'body' || location === 'all')
bodyRule(acc, endpoint, payload, location) ==
  IF location \notin {"body", "all"} THEN acc
  ELSE LET keys == IF endpoint.bodyKind = "object"
                   THEN Keys(acc.heap[endpoint.body]) ELSE <<>>
           Added(a1) ==
             LET c == JSONClone(a1.heap, endpoint)
                 \* modified.body = modified.body || {}; a raw string is replaced
                 b == OrEmpty(c.heap, c.ep.body)
             IN  IF endpoint.method \in {"POST", "PUT", "PATCH"}
                 THEN [a1 EXCEPT
                         !.heap = [b.heap EXCEPT ![b.ref] = MapSet(@, "input", payload)],
                         !.out = Append(@, [c.ep EXCEPT
                                              !.body = b.ref, !.bodyKind = "object",
                                              !.injectionPoint = "Body param: input (injected)"])]
                 ELSE a1
       IN  Then(InjectKeys(acc, endpoint, payload, "body", keys, 1), Added)

\* if (location === 'header' || location === 'all')
headerRule(acc, endpoint, payload, location) ==
  IF location \notin {"header", "all"} THEN acc
  ELSE LET c == JSONClone(acc.heap, endpoint)
           hd == OrEmpty(c.heap, c.ep.headers)
       IN  [acc EXCEPT
              !.heap = [hd.heap EXCEPT ![hd.ref] = MapSet(@, "X-Test-Input", payload)],
              !.out = Append(@, [c.ep EXCEPT !.headers = hd.ref,
                                             !.injectionPoint = "Header: X-Test-Input (injected)"])]

\* if (location === 'path' || location === 'all'); url.endsWith throws a
\* TypeError when the descriptor has no url
pathRule(acc, endpoint, payload, location) ==
  IF location \notin {"path", "all"} THEN acc
  ELSE LET c == JSONClone(acc.heap, endpoint)
           url == c.ep.url
           urlBase == IF url[Len(url)] = "/" THEN url ELSE Append(url, "/")
       IN  IF url = UndefinedUrl
           THEN [acc EXCEPT !.heap = c.heap, !.threw = TRUE]
           ELSE [acc EXCEPT
                   !.heap = c.heap,
                   !.out = Append(@, [c.ep EXCEPT
                                        !.url = urlBase \o encodeURIComponent(payload),
                                        !.injectionPoint = "URL path (appended)"])]

\* the fallback variant appended whatever the rules produced
fallbackAlways(acc, endpoint, payload, location) ==
  IF acc.threw THEN acc
  ELSE LET c == JSONClone(acc.heap, endpoint)
           q == OrEmpty(c.heap, c.ep.queryParams)
       IN  [acc EXCEPT
              !.heap = [q.heap EXCEPT ![q.ref] = MapSet(@, "test", payload)],
              !.out = Append(@, [c.ep EXCEPT !.queryParams = q.ref,
                                             !.injectionPoint = "Query param: test (fallback)"])]

\* if (injectedEndpoints.length === 0)
fallbackRule(acc, endpoint, payload, location) ==
  IF Len(acc.out) # 0 \/ acc.threw THEN acc
  ELSE LET c == JSONClone(acc.heap, endpoint)
           q == OrEmpty(c.heap, c.ep.queryParams)
       IN  [acc EXCEPT
              !.heap = [q.heap EXCEPT ![q.ref] = MapSet(@, "test", payload)],
              !.out = Append(@, [c.ep EXCEPT !.queryParams = q.ref,
                                             !.injectionPoint = "Query param: test (fallback)"])]

injectPayload(h, endpoint, payload, location) ==
  LET QueryStep(a) == queryRule(a, endpoint, payload, location)
      BodyStep(a) == bodyRule(a, endpoint, payload, location)
      HeaderStep(a) == headerRule(a, endpoint, payload, location)
      PathStep(a) == pathRule(a, endpoint, payload, location)
      FallbackStep(a) == fallbackRule(a, endpoint, payload, location)
  IN  Then(Then(Then(Then(Then([heap |-> h, out |-> <<>>, threw |-> FALSE],
                               QueryStep), BodyStep), HeaderStep), PathStep), FallbackStep)

(***************************************************************************)
(* Endpoint descriptors the parsers hand over (parsePostmanCollection,     *)
(* parseCurl) or a client posts as a direct endpoint list                  *)
(***************************************************************************)

Absent == <<[k |-> "<absent>", v |-> <<>>]>>

Entry(key, value) == [k |-> key, v |-> <<value>>]

\* POST with query {a: 1} and body {b: 2}
EpLogin ==
  [name |-> "login", method |-> "POST", url |-> <<"https://api.test", "/login">>,
   headers |-> <<>>, bodyKind |-> "object", body |-> <<Entry("b", "2")>>,
   queryParams |-> <<Entry("a", "1")>>]

\* GET without query, body or headers
EpPing ==
  [name |-> "ping", method |-> "GET", url |-> <<"https://api.test", "/ping", "/">>,
   headers |-> <<Entry("Accept", "text/plain")>>, bodyKind |-> "null", body |-> Absent,
   queryParams |-> <<>>]

\* PUT with two query keys and a raw string body
EpUpload ==
  [name |-> "upload", method |-> "PUT", url |-> <<"https://api.test", "/files">>,
   headers |-> <<Entry("Content-Type", "text/plain")>>, bodyKind |-> "string",
   body |-> Absent, queryParams |-> <<Entry("a", "1"), Entry("c", "3")>>]

\* GET that carries a structured body, queryParams property missing
EpSearch ==
  [name |-> "search", method |-> "GET", url |-> <<"https://api.test", "/search">>,
   headers |-> Absent, bodyKind |-> "object",
   body |-> <<Entry("b", "2"), Entry("d", "4")>>, queryParams |-> Absent]

\* PATCH with a structured body of two keys, queryParams property missing
EpProfile ==
  [name |-> "profile", method |-> "PATCH", url |-> <<"https://api.test", "/profile">>,
   headers |-> <<>>, bodyKind |-> "object",
   body |-> <<Entry("b", "2"), Entry("d", "4")>>, queryParams |-> Absent]

\* an item of a direct endpoint list that has no url property
EpNoUrl ==
  [name |-> "broken", method |-> "GET", url |-> UndefinedUrl,
   headers |-> <<>>, bodyKind |-> "null", body |-> Absent, queryParams |-> <<>>]

\* the descriptors of the data model: the url is a string
EndpointDescriptors == {EpLogin, EpPing, EpUpload, EpSearch, EpProfile}

Locations == {"query", "body", "header", "path", "all"}

StoreObject(h, m) == IF m = Absent THEN [heap |-> h, ref |-> 0] ELSE Alloc(h, m)

\* the endpoint object of a descriptor, allocated on heap h
Store(h, d) ==
  LET a == StoreObject(h, d.headers)
      b == StoreObject(a.heap, d.body)
      c == StoreObject(b.heap, d.queryParams)
  IN  [heap |-> c.heap,
       ep |-> [name |-> d.name, method |-> d.method, url |-> d.url,
               headers |-> a.ref, bodyKind |-> d.bodyKind, body |-> b.ref,
               queryParams |-> c.ref, injectionPoint |-> ""]]

LoadObject(h, ref) == IF ref = 0 THEN Absent ELSE h[ref]

\* what an endpoint object currently reads as
Deref(h, ep) ==
  [name |-> ep.name, method |-> ep.method, url |-> ep.url,
   headers |-> LoadObject(h, ep.headers), bodyKind |-> ep.bodyKind,
   body |-> LoadObject(h, ep.body), queryParams |-> LoadObject(h, ep.queryParams),
   injectionPoint |-> ep.injectionPoint]

\* the objects an endpoint object refers to
Refs(ep) == {ep.headers, ep.body, ep.queryParams} \ {0}

(***************************************************************************)
(* State                                                                   *)
(***************************************************************************)

VARIABLES
  call,      \* one call of an analyzer: its arguments and, once returned, its result
  heap,      \* the objects allocated so far
  source,    \* the endpoint object handed to injectPayload
  variants,  \* the endpoint objects injectPayload has returned, all calls
  shadow,    \* what source (index 0) and each variant were last written to read as
  lastCall,  \* arguments and result positions of the latest injectPayload call
  pc,        \* where runScan / scanEndpoint is suspended or about to continue
  input,     \* the arguments of runScan: endpoints and options
  loopIndex, \* runScan's loop index i (0-based)
  cur,       \* scanEndpoint's local `results` of the endpoint being scanned
  pos,       \* scanEndpoint's loop position: scanner, payload, variant, endpointsToTest
  baseline,  \* scanEndpoint's `baseline`
  report,    \* runScan's `results`
  progress,  \* the events handed to progressCallback, in order
  sent,      \* the request in flight, if any
  last,      \* what the latest sendRequest resolved to
  env,       \* bookkeeping: analyzer calls made, incidents served by the target
  transport, \* one sendRequest call on its own: what axios settles with, how the call ended
  registry,  \* the server's activeScans map: scan id -> entry
  timers,    \* the eviction timers that are pending (setTimeout of one hour)
  reply,     \* the latest answer of GET /api/scan/:scanId
  handlers,  \* the POST /api/scan handlers: where each one stands
  runs,      \* runScan invocations that interleave: their loop positions
  inflight   \* HTTP requests dispatched and not yet settled, all invocations

analyzeVars == <<call>>
injectVars == <<heap, source, variants, shadow, lastCall>>
scanVars == <<pc, input, loopIndex, cur, pos, baseline, report, progress, sent, last, env>>
serverVars == <<transport, registry, timers, reply, handlers, runs, inflight>>
vars == <<call, heap, source, variants, shadow, lastCall,
          pc, input, loopIndex, cur, pos, baseline, report, progress, sent, last, env,
          transport, registry, timers, reply, handlers, runs, inflight>>

(***************************************************************************)
(* One analyzer call                                                        *)
(***************************************************************************)

NoResult == [vulnerable |-> FALSE, confidence |-> "none", indicators |-> <<>>, notes |-> ""]

NoCall ==
  [phase |-> "idle", type |-> "", response |-> [status |-> 0, data |-> NoData, headers |-> <<>>],
   payload |-> <<>>, originalStatus |-> Null, responseTime |-> 0, result |-> NoResult]

NoRequest == [injectionPoint |-> "<none>", url |-> <<>>, method |-> "", kind |-> "none"]

NoSendResult ==
  [success |-> TRUE, response |-> [status |-> 0, data |-> NoData, headers |-> <<>>],
   responseTime |-> 0, error |-> ""]

NoPosition == [s |-> 0, p |-> 0, v |-> 0, injected |-> <<>>]

NoEndpointResult ==
  [api |-> "", tests |-> <<>>,
   summary |-> [total |-> 0, passed |-> 0, failed |-> 0, errors |-> 0]]

NoTransport ==
  [state |-> "idle", outcome |-> [kind |-> "none"]]

NoReply == [status |-> 0, scanId |-> 0, body |-> "none"]

TransportIdle == transport = NoTransport

RegistryIdle ==
  /\ registry = <<>>
  /\ timers = {}
  /\ reply = NoReply
  /\ handlers = <<>>

RunsIdle ==
  /\ runs = <<>>
  /\ inflight = {}

ServerIdle ==
  /\ TransportIdle
  /\ RegistryIdle
  /\ RunsIdle

ScanAtRest ==
  /\ pc = "idle"
  /\ input = [endpoints |-> <<>>, options |-> [scanTypes |-> <<>>, maxPayloads |-> 0, injectLocation |-> ""]]
  /\ loopIndex = 0
  /\ cur = NoEndpointResult
  /\ pos = NoPosition
  /\ baseline = [status |-> Null, responseTime |-> 0]
  /\ report = [endpoints |-> <<>>, finished |-> FALSE,
               summary |-> [totalEndpoints |-> 0, totalTests |-> 0, passed |-> 0,
                            failed |-> 0, errors |-> 0, vulnerabilities |-> <<>>]]
  /\ progress = <<>>
  /\ sent = NoRequest
  /\ last = NoSendResult
  /\ env = [analyzeCalls |-> 0, incidents |-> 0]

ScanIdle ==
  /\ ServerIdle
  /\ ScanAtRest

InjectIdle ==
  /\ heap = <<>>
  /\ source = Store(<<>>, EpPing).ep
  /\ variants = <<>>
  /\ shadow = <<>>
  /\ lastCall = [calls |-> 0, writes |-> 0, payload |-> <<>>, location |-> "", first |-> 0, count |-> 0]

AnalyzeInit ==
  /\ \E type \in AnalyzerTypes, response \in Responses,
        originalStatus \in BaselineStatuses, responseTime \in ResponseTimes :
       \E payload \in PayloadsOf(type) :
         call = [phase |-> "called", type |-> type, response |-> response,
                 payload |-> payload, originalStatus |-> originalStatus,
                 responseTime |-> responseTime, result |-> NoResult]
  /\ InjectIdle
  /\ ScanIdle

AnalyzeReturn ==
  /\ call.phase = "called"
  /\ call' = [call EXCEPT
                !.phase = "returned",
                !.result = analyzeResponse(call.type, call.response, call.payload,
                                           call.originalStatus, call.responseTime)]
  /\ UNCHANGED injectVars
  /\ UNCHANGED scanVars
  /\ UNCHANGED serverVars

SpecAnalyze == AnalyzeInit /\ [][AnalyzeReturn]_vars

(***************************************************************************)
(* Calls of injectPayload on one source endpoint, and writes by the caller *)
(* into the variants it got back                                           *)
(***************************************************************************)

MaxInjectCalls == 1
MaxWrites == 1

InjectPayloads == {sqlInjection[1], xss[1]}

InjectInit ==
  /\ call = NoCall
  /\ ScanIdle
  /\ \E d \in EndpointDescriptors :
       LET s == Store(<<>>, d)
       IN  /\ heap = s.heap
           /\ source = s.ep
           /\ shadow = <<Deref(s.heap, s.ep)>>
  /\ variants = <<>>
  /\ lastCall = [calls |-> 0, writes |-> 0, payload |-> <<>>, location |-> "", first |-> 0, count |-> 0]

\* const injectedEndpoints = injectPayload(source, payload, location)
Inject ==
  /\ lastCall.calls < MaxInjectCalls
  /\ \E payload \in InjectPayloads, location \in Locations :
       LET r == injectPayload(heap, source, payload, location)
       IN  /\ ~r.threw
           /\ heap' = r.heap
           /\ variants' = variants \o r.out
           /\ shadow' = shadow \o [n \in 1..Len(r.out) |-> Deref(r.heap, r.out[n])]
           /\ lastCall' = [lastCall EXCEPT !.calls = @ + 1, !.payload = payload,
                                           !.location = location,
                                           !.first = Len(variants) + 1,
                                           !.count = Len(r.out)]
  /\ UNCHANGED <<call, source>>
  /\ UNCHANGED scanVars
  /\ UNCHANGED serverVars

WriteFields == {"headers", "body", "queryParams"}

\* variants[i][field][key] = value, by the caller that owns variant i
WriteVariant ==
  /\ lastCall.writes < MaxWrites
  /\ \E i \in 1..Len(variants), field \in WriteFields :
       LET ref == variants[i][field]
           key == "a"
           value == <<"written">>
       IN  /\ ref # 0
           /\ heap' = [heap EXCEPT ![ref] = MapSet(@, key, value)]
           /\ shadow' = [shadow EXCEPT ![i + 1][field] = MapSet(@, key, value)]
  /\ lastCall' = [lastCall EXCEPT !.writes = @ + 1]
  /\ UNCHANGED <<call, source, variants>>
  /\ UNCHANGED scanVars
  /\ UNCHANGED serverVars

InjectNext == Inject \/ WriteVariant

SpecInject == InjectInit /\ [][InjectNext]_vars

(***************************************************************************)
(* The scan orchestrator (scanner/index.js: sendRequest, getBaseline,      *)
(* scanEndpoint, runScan).  runScan is one asynchronous function: it is    *)
(* suspended while a request is in flight (pc "baseline", "probe") and     *)
(* during the pause after an analyzed probe (pc "delay"); "loop" is the    *)
(* head of runScan's loop and "next" the point in scanEndpoint where the   *)
(* next probe is chosen.  The inner catch of scanEndpoint is not modelled: *)
(* sendRequest catches its own errors and no analyzer throws.              *)
(***************************************************************************)

MaxEndpoints == 2
MaxIncidents == 1

\* Array.prototype.slice(0, n): a negative n counts from the end
Slice(seq, n) ==
  SubSeq(seq, 1, IF n < 0 THEN (IF Len(seq) + n > 0 THEN Len(seq) + n ELSE 0)
                 ELSE IF n < Len(seq) THEN n ELSE Len(seq))

\* options.scanTypes when the option is missing (null / undefined)
NoScanTypes == <<"<null>">>

\* the selection in the order of options.scanTypes rather than of the registry
scanTypesAsGiven(options) ==
  IF Len(options.scanTypes) > 0 THEN options.scanTypes ELSE scanners

\* options.scanTypes && options.scanTypes.length > 0
\*   ? scanners.filter(s => options.scanTypes.includes(s.getType())) : scanners
scannersToUse(options) ==
  IF options.scanTypes # NoScanTypes /\ Len(options.scanTypes) > 0
  THEN SelectSeq(scanners,
                 LAMBDA t : \E n \in 1..Len(options.scanTypes) : options.scanTypes[n] = t)
  ELSE scanners

\* options.maxPayloads || 5 (0 stands for a missing or zero option)
maxPayloads(options) == IF options.maxPayloads = 0 THEN 5 ELSE options.maxPayloads

\* scanner.getPayloads().slice(0, maxPayloads)
payloadsOf(type, options) == Slice(getPayloads(type), maxPayloads(options))

\* options.injectLocation || 'all'
injectLocation(options) ==
  IF options.injectLocation = "" THEN "all" ELSE options.injectLocation

\* every variant injectPayload returned
endpointsUncapped(injectedEndpoints) == injectedEndpoints

\* a cap of three variants
endpointsToTestThree(injectedEndpoints) == Slice(injectedEndpoints, 3)

\* injectedEndpoints.slice(0, 2)
endpointsToTest(injectedEndpoints) == Slice(injectedEndpoints, 2)

\* injectPayload(endpoint, payload, location) on the descriptor of an endpoint
InjectInto(d, payload, location) ==
  CHOOSE r \in {injectPayload(st.heap, st.ep, p, l) :
                  st \in {Store(<<>>, d)}, p \in {payload}, l \in {location}} : TRUE

RECURSIVE NextPayload(_, _, _, _)
\* the payload the two outer loops of scanEndpoint reach after payload p of
\* scanner s; s = 0 when both loops are exhausted
NextPayload(use, options, sIdx, pIdx) ==
  IF sIdx > Len(use) THEN [s |-> 0, p |-> 0]
  ELSE IF pIdx < Len(payloadsOf(use[sIdx], options)) THEN [s |-> sIdx, p |-> pIdx + 1]
  ELSE NextPayload(use, options, sIdx + 1, 0)

Request(kind, ep) ==
  [kind |-> kind, injectionPoint |-> ep.injectionPoint, url |-> ep.url, method |-> ep.method]

\* what the target answers
Benign == [status |-> 200, data |-> <<"ok">>, headers |-> <<>>]

Leaky ==
  [status |-> 200, data |-> <<"root:", "x", ":0:0", ":", "root", "sql", "syntax">>,
   headers |-> <<>>]

TargetResponses == {Benign, Leaky}

\* the target under test: it leaks when a payload reaches one of the
\* parameters it reads (query key a, body key b) and answers plainly otherwise
TargetAnswer(request) ==
  IF request.kind = "probe" /\ request.injectionPoint \in {"Query param: a", "Body param: b"}
  THEN Leaky
  ELSE Benign

Answered(response) ==
  [success |-> TRUE, response |-> response, responseTime |-> 120, error |-> ""]

\* what `await axios(config)` settles with: a response of any status
\* (validateStatus: () => true) or an error that carries no response
Resolved(response) ==
  [kind |-> "response", response |-> response, code |-> "", message |-> <<>>, text |-> ""]

Rejected(code, message, text) ==
  [kind |-> "error", response |-> [status |-> 0, data |-> NoData, headers |-> <<>>],
   code |-> code, message |-> message, text |-> text]

\* every error is reported with its message, whatever its code
classifyByMessage(error) == error.text

\* error.code === 'ECONNREFUSED' ? ... : error.code === 'ETIMEDOUT' ? ... : error.message
classifyError(error) ==
  IF error.code = "ECONNREFUSED" THEN "Connection refused - server may be down"
  ELSE IF error.code = "ETIMEDOUT" THEN "Request timed out"
  ELSE error.text

\* the catch of sendRequest: status error.response?.status || 0, the error
\* message as data, the error classified by error.code
Failed(error) ==
  [success |-> FALSE,
   response |-> [status |-> 0, data |-> error.message, headers |-> <<>>],
   responseTime |-> 120, error |-> classifyError(error)]

\* error.code === 'ECONNREFUSED'
TransportFailures ==
  { Rejected("ECONNREFUSED", <<"connect", "econnrefused">>, "connect ECONNREFUSED") }

\* endpoint.url.startsWith throws inside the try of sendRequest
UrlTypeError ==
  Rejected("", <<"cannot", "read", "properties", "of", "undefined">>,
           "Cannot read properties of undefined (reading 'startsWith')")

\* the try block of sendRequest: it returns, or an error is thrown in it
tryRequest(request, outcome) ==
  IF request.url = UndefinedUrl THEN [threw |-> TRUE, error |-> UrlTypeError]
  ELSE IF outcome.kind = "error" THEN [threw |-> TRUE, error |-> outcome]
  ELSE [threw |-> FALSE, value |-> Answered(outcome.response)]

\* a catch block that passes the error on to the caller
catchRethrow(error) == [rejected |-> TRUE, value |-> NoSendResult]

\* catch (error) { return { success: false, ... } }
catchRequest(error) == [rejected |-> FALSE, value |-> Failed(error)]

\* how one sendRequest(request) call ends when axios settles with outcome
settle(request, outcome) ==
  LET t == tryRequest(request, outcome)
  IN  IF t.threw THEN catchRequest(t.error)
      ELSE [rejected |-> FALSE, value |-> t.value]

\* what axios settles with during a scan
ScanOutcomes(request) == {Resolved(TargetAnswer(request))} \cup TransportFailures

\* the results sendRequest can resolve to
sendRequest(request) ==
  {c.value : c \in {c \in {settle(request, o) : o \in ScanOutcomes(request)} : ~c.rejected}}

(***************************************************************************)
(* One sendRequest call on its own                                         *)
(***************************************************************************)

\* the endpoints sendRequest is called with: getBaseline passes the endpoint
\* of the list as it came in
SendRequests ==
  { [kind |-> "baseline", injectionPoint |-> "", url |-> d.url, method |-> d.method] :
      d \in EndpointDescriptors \cup {EpNoUrl} }

\* responses of any status are handed back by axios as responses
SendResponses ==
  [status : {200, 404, 500, 503}, data : {<<"ok">>, NoData}, headers : {<<>>}]

\* the errors axios rejects with when no response arrived
AxiosErrors ==
  { Rejected("ECONNREFUSED", <<"connect", "econnrefused">>, "connect ECONNREFUSED"),
    Rejected("ETIMEDOUT", <<"connect", "etimedout">>, "connect ETIMEDOUT"),
    Rejected("ECONNABORTED", <<"timeout", "of", "15000ms", "exceeded">>,
             "timeout of 15000ms exceeded"),
    Rejected("ENOTFOUND", <<"getaddrinfo", "enotfound">>, "getaddrinfo ENOTFOUND"),
    Rejected("ERR_FR_TOO_MANY_REDIRECTS", <<"maximum", "number", "of", "redirects", "exceeded">>,
             "Maximum number of redirects exceeded") }

SendOutcomes == {Resolved(r) : r \in SendResponses} \cup AxiosErrors

SendInit ==
  /\ call = NoCall
  /\ InjectIdle
  /\ ScanAtRest
  /\ RegistryIdle
  /\ RunsIdle
  /\ \E request \in SendRequests, outcome \in SendOutcomes :
       transport = [state |-> "called", request |-> request, outcome |-> outcome,
                    result |-> NoSendResult]

\* the promise sendRequest returned settles
SendSettles ==
  /\ transport.state = "called"
  /\ \E c \in {settle(transport.request, transport.outcome)} :
       transport' = [transport EXCEPT
                       !.state = IF c.rejected THEN "rejected" ELSE "resolved",
                       !.result = c.value]
  /\ UNCHANGED <<call, registry, timers, reply, handlers, runs, inflight>>
  /\ UNCHANGED injectVars
  /\ UNCHANGED scanVars

SpecSend == SendInit /\ [][SendSettles]_vars

\* the connection to the target fails at most MaxIncidents times
Incident(request, result) ==
  request.url # UndefinedUrl /\ ~result.success

\* no analyzer call is ever skipped
neverTransportError(result) == FALSE

\* if (error && !success)
isTransportError(result) == result.error # "" /\ ~result.success

\* the ERROR record of a probe that could not be sent
ErrorRecord(type, payload, request, result) ==
  [type |-> type, severity |-> getSeverity(type), payload |-> payload,
   injectionPoint |-> request.injectionPoint, responseCode |-> result.response.status,
   result |-> "ERROR", confidence |-> "", notes |-> "Request failed: " \o result.error,
   baselineStatus |-> Null]

\* a record whose baseline status is taken from the probe's own response
AnalyzedRecordOfProbe(type, payload, request, result, analysis, base) ==
  [type |-> type, severity |-> getSeverity(type), payload |-> payload,
   injectionPoint |-> request.injectionPoint, responseCode |-> result.response.status,
   result |-> IF analysis.vulnerable THEN "FAIL" ELSE "PASS",
   confidence |-> IF analysis.confidence = "" THEN "low" ELSE analysis.confidence,
   notes |-> analysis.notes, baselineStatus |-> result.response.status]

\* the PASS or FAIL record of an analyzed probe
AnalyzedRecord(type, payload, request, result, analysis, base) ==
  [type |-> type, severity |-> getSeverity(type), payload |-> payload,
   injectionPoint |-> request.injectionPoint, responseCode |-> result.response.status,
   result |-> IF analysis.vulnerable THEN "FAIL" ELSE "PASS",
   confidence |-> IF analysis.confidence = "" THEN "low" ELSE analysis.confidence,
   notes |-> analysis.notes, baselineStatus |-> base.status]

\* const results = { api: endpoint.name || endpoint.url, ..., tests: [], summary }
NewEndpointResult(d) ==
  [api |-> d.name, tests |-> <<>>,
   summary |-> [total |-> 0, passed |-> 0, failed |-> 0, errors |-> 0]]

\* one entry for every record, whatever its verdict
VulnerabilitiesOfAll(api, tests, n) ==
  [k \in 1..Len(tests) |->
     [endpoint |-> api, type |-> tests[k].type, severity |-> tests[k].severity,
      payload |-> tests[k].payload, confidence |-> tests[k].confidence]]

RECURSIVE Vulnerabilities(_, _, _)
\* endpointResults.tests.filter(t => t.result === 'FAIL'), one entry each
Vulnerabilities(api, tests, n) ==
  IF n > Len(tests) THEN <<>>
  ELSE (IF tests[n].result = "FAIL"
        THEN << [endpoint |-> api, type |-> tests[n].type, severity |-> tests[n].severity,
                 payload |-> tests[n].payload, confidence |-> tests[n].confidence] >>
        ELSE <<>>)
       \o Vulnerabilities(api, tests, n + 1)

\* runScan after scanEndpoint returned endpointResults
pushResult(results, endpointResults) ==
  [results EXCEPT
     !.endpoints = Append(@, endpointResults),
     !.summary.totalTests = @ + endpointResults.summary.total,
     !.summary.passed = @ + endpointResults.summary.passed,
     !.summary.failed = @ + endpointResults.summary.failed,
     !.summary.errors = @ + endpointResults.summary.errors,
     !.summary.vulnerabilities =
        @ \o Vulnerabilities(endpointResults.api, endpointResults.tests, 1)]

\* a catch that records nothing for the endpoint
catchSkip(results, d) == results

\* a catch that records the result and leaves the scan summary alone
catchPushUncounted(results, d) ==
  [results EXCEPT
     !.endpoints = Append(@, [api |-> d.name, tests |-> <<>>,
                              summary |-> [total |-> 0, passed |-> 0,
                                           failed |-> 0, errors |-> 1]])]

\* runScan's catch: a result without tests, one error counted
catchPush(results, d) ==
  [results EXCEPT
     !.endpoints = Append(@, [api |-> d.name, tests |-> <<>>,
                              summary |-> [total |-> 0, passed |-> 0,
                                           failed |-> 0, errors |-> 1]]),
     !.summary.errors = @ + 1]

NewReport(endpoints) ==
  [endpoints |-> <<>>, finished |-> FALSE,
   summary |-> [totalEndpoints |-> Len(endpoints), totalTests |-> 0, passed |-> 0,
                failed |-> 0, errors |-> 0, vulnerabilities |-> <<>>]]

\* the endpoints and options runScan is called with
ScanEndpoints == {EpLogin, EpNoUrl}

EndpointLists == UNION {[1..n -> ScanEndpoints] : n \in 0..MaxEndpoints}

OptionSets ==
  { [scanTypes |-> <<"SQL Injection">>, maxPayloads |-> 3, injectLocation |-> "all"],
    [scanTypes |-> <<"Path Traversal", "XSS">>, maxPayloads |-> 1, injectLocation |-> "body"],
    [scanTypes |-> <<"Command Injection">>, maxPayloads |-> 2, injectLocation |-> ""] }

ScanInit ==
  /\ call = NoCall
  /\ InjectIdle
  /\ ServerIdle
  /\ \E endpoints \in EndpointLists, options \in OptionSets :
       /\ input = [endpoints |-> endpoints, options |-> options]
       /\ report = NewReport(endpoints)
  /\ pc = "loop"
  /\ loopIndex = 0
  /\ cur = NoEndpointResult
  /\ pos = NoPosition
  /\ baseline = [status |-> Null, responseTime |-> 0]
  /\ progress = <<>>
  /\ sent = NoRequest
  /\ last = NoSendResult
  /\ env = [analyzeCalls |-> 0, incidents |-> 0]

Endpoint == input.endpoints[loopIndex + 1]

\* an event that numbers the endpoints from 0
progressEventFromZero(i, endpoints) ==
  [current |-> i, total |-> Len(endpoints), endpoint |-> endpoints[i + 1].name]

\* progressCallback({current: i + 1, total: endpoints.length,
\*                   endpoint: endpoint.name || endpoint.url})
progressEvent(i, endpoints) ==
  [current |-> i + 1, total |-> Len(endpoints), endpoint |-> endpoints[i + 1].name]

\* runScan's loop body up to the first await: the progress callback, then
\* scanEndpoint up to the baseline request
BeginEndpoint ==
  /\ pc = "loop"
  /\ loopIndex < Len(input.endpoints)
  /\ progress' = Append(progress, progressEvent(loopIndex, input.endpoints))
  /\ cur' = NewEndpointResult(Endpoint)
  /\ baseline' = [status |-> Null, responseTime |-> 0]
  /\ pos' = NoPosition
  /\ sent' = [kind |-> "baseline", injectionPoint |-> "", url |-> Endpoint.url,
               method |-> Endpoint.method]
  /\ pc' = "baseline"
  /\ UNCHANGED serverVars
  /\ UNCHANGED <<call, heap, source, variants, shadow, lastCall,
                 input, loopIndex, report, last, env>>

\* baseline = await getBaseline(endpoint)
BaselineResolved ==
  /\ pc = "baseline"
  /\ \E result \in sendRequest(sent) :
       /\ Incident(sent, result) => env.incidents < MaxIncidents
       /\ env' = [env EXCEPT !.incidents = IF Incident(sent, result) THEN @ + 1 ELSE @]
       /\ last' = result
       /\ baseline' = [status |-> result.response.status,
                       responseTime |-> result.responseTime]
  /\ pos' = [s |-> 1, p |-> 0, v |-> 0, injected |-> <<>>]
  /\ sent' = NoRequest
  /\ pc' = "next"
  /\ UNCHANGED serverVars
  /\ UNCHANGED <<call, heap, source, variants, shadow, lastCall,
                 input, loopIndex, cur, report, progress>>


\* where the loops of scanEndpoint stand once the variants of the current
\* payload are used up
Upcoming == NextPayload(scannersToUse(input.options), input.options, pos.s, pos.p)

MoreVariants == pos.v < Len(pos.injected)

\* injectPayload(endpoint, payload, options.injectLocation || 'all') for
\* payload up.p of scanner up.s
InjectionAt(up) ==
  InjectInto(Endpoint,
             payloadsOf(scannersToUse(input.options)[up.s], input.options)[up.p],
             injectLocation(input.options))

\* the loop position at payload up.p of scanner up.s, no variant probed yet
PositionAt(up, injection) ==
  [s |-> up.s, p |-> up.p, v |-> 0,
   injected |-> LET out == endpointsToTest(injection.out)
                IN  [n \in 1..Len(out) |-> Request("probe", out[n])]]

\* results.summary.total++; await sendRequest(injectedEndpoint)
Probe(target) ==
  /\ pos' = [target EXCEPT !.v = @ + 1]
  /\ cur' = [cur EXCEPT !.summary.total = @ + 1]
  /\ sent' = target.injected[target.v + 1]
  /\ pc' = "probe"

\* the loops of scanEndpoint up to the next await sendRequest(injectedEndpoint):
\* the next variant of the current payload, or injectPayload for the next
\* payload and its first variant
Dispatch ==
  /\ pc = "next"
  /\ IF MoreVariants THEN Probe(pos)
     ELSE \E up \in {Upcoming} :
            /\ up.s # 0
            /\ \E injection \in {InjectionAt(up)} :
                 /\ ~injection.threw
                 /\ \E target \in {PositionAt(up, injection)} : Probe(target)
  /\ UNCHANGED serverVars
  /\ UNCHANGED <<call, heap, source, variants, shadow, lastCall,
                 input, loopIndex, baseline, report, progress, last, env>>

CurrentType == scannersToUse(input.options)[pos.s]

CurrentPayload == payloadsOf(CurrentType, input.options)[pos.p]

\* sendRequest resolved with a transport failure: the ERROR record, errors++,
\* continue (the pause at the end of the loop body is skipped)
ProbeFailed ==
  /\ pc = "probe"
  /\ \E result \in sendRequest(sent) :
       /\ isTransportError(result)
       /\ Incident(sent, result) => env.incidents < MaxIncidents
       /\ env' = [env EXCEPT !.incidents = IF Incident(sent, result) THEN @ + 1 ELSE @]
       /\ last' = result
       /\ \E type \in {CurrentType}, payload \in {CurrentPayload} :
            cur' = [cur EXCEPT
                      !.tests = Append(@, ErrorRecord(type, payload, sent, result)),
                      !.summary.errors = @ + 1]
  /\ sent' = NoRequest
  /\ pc' = "next"
  /\ UNCHANGED serverVars
  /\ UNCHANGED <<call, heap, source, variants, shadow, lastCall,
                 input, loopIndex, pos, baseline, report, progress>>

\* sendRequest resolved otherwise: scanner.analyzeResponse, the PASS or FAIL
\* record, passed++ or failed++, then the pause
ProbeAnalyzed ==
  /\ pc = "probe"
  /\ \E result \in sendRequest(sent) :
       /\ ~isTransportError(result)
       /\ Incident(sent, result) => env.incidents < MaxIncidents
       /\ \E type \in {CurrentType}, payload \in {CurrentPayload} :
            \E analysis \in {analyzeResponse(type, result.response, payload,
                                             baseline.status, result.responseTime)} :
              cur' = [cur EXCEPT
                        !.tests = Append(@, AnalyzedRecord(type, payload, sent, result,
                                                           analysis, baseline)),
                        !.summary.failed = IF analysis.vulnerable THEN @ + 1 ELSE @,
                        !.summary.passed = IF analysis.vulnerable THEN @ ELSE @ + 1]
       /\ env' = [env EXCEPT !.incidents = IF Incident(sent, result) THEN @ + 1 ELSE @,
                             !.analyzeCalls = @ + 1]
       /\ last' = result
  /\ sent' = NoRequest
  /\ pc' = "delay"
  /\ UNCHANGED serverVars
  /\ UNCHANGED <<call, heap, source, variants, shadow, lastCall,
                 input, loopIndex, pos, baseline, report, progress>>

\* await new Promise(resolve => setTimeout(resolve, 50))
DelayElapsed ==
  /\ pc = "delay"
  /\ pc' = "next"
  /\ UNCHANGED serverVars
  /\ UNCHANGED <<call, heap, source, variants, shadow, lastCall,
                 input, loopIndex, cur, pos, baseline, report, progress, sent, last, env>>

\* scanEndpoint returns; runScan pushes the result, adds up the summary and
\* lists the vulnerabilities
EndpointReturn ==
  /\ pc = "next"
  /\ ~MoreVariants
  /\ Upcoming.s = 0
  /\ report' = pushResult(report, cur)
  /\ loopIndex' = loopIndex + 1
  /\ pc' = "loop"
  /\ UNCHANGED serverVars
  /\ UNCHANGED <<call, heap, source, variants, shadow, lastCall,
                 input, cur, pos, baseline, progress, sent, last, env>>

\* injectPayload throws in scanEndpoint, outside its try: runScan's catch
EndpointThrows ==
  /\ pc = "next"
  /\ ~MoreVariants
  /\ \E up \in {Upcoming} : up.s # 0 /\ InjectionAt(up).threw
  /\ report' = catchPush(report, Endpoint)
  /\ loopIndex' = loopIndex + 1
  /\ pc' = "loop"
  /\ UNCHANGED serverVars
  /\ UNCHANGED <<call, heap, source, variants, shadow, lastCall,
                 input, cur, pos, baseline, progress, sent, last, env>>

\* the loop of runScan is over: results.duration is set, results returned
Finish ==
  /\ pc = "loop"
  /\ loopIndex = Len(input.endpoints)
  /\ report' = [report EXCEPT !.finished = TRUE]
  /\ pc' = "done"
  /\ UNCHANGED serverVars
  /\ UNCHANGED <<call, heap, source, variants, shadow, lastCall,
                 input, loopIndex, cur, pos, baseline, progress, sent, last, env>>

Next ==
  \/ BeginEndpoint
  \/ BaselineResolved
  \/ Dispatch
  \/ ProbeFailed
  \/ ProbeAnalyzed
  \/ DelayElapsed
  \/ EndpointReturn
  \/ EndpointThrows
  \/ Finish

Spec == ScanInit /\ [][Next]_vars

(***************************************************************************)
(* Scans of a single endpoint under the options POST /api/scan can build:  *)
(* scanTypes missing, empty, in any order or naming no analyzer;           *)
(* maxPayloads missing (parseInt(...) || 5), larger than a catalog or      *)
(* negative.  The connection to the target fails at most once.             *)
(***************************************************************************)

PlanOptionSets ==
  { [scanTypes |-> NoScanTypes, maxPayloads |-> 0, injectLocation |-> ""],
    [scanTypes |-> <<>>, maxPayloads |-> 1, injectLocation |-> "header"],
    [scanTypes |-> <<"XSS", "SQL Injection">>, maxPayloads |-> 2, injectLocation |-> "query"],
    [scanTypes |-> <<"HTTP Method">>, maxPayloads |-> 50, injectLocation |-> "body"],
    [scanTypes |-> <<"SQL Injection">>, maxPayloads |-> -1, injectLocation |-> "header"],
    [scanTypes |-> <<"GraphQL Injection">>, maxPayloads |-> 2, injectLocation |-> "all"] }

PlanInit ==
  /\ call = NoCall
  /\ InjectIdle
  /\ ServerIdle
  /\ \E d \in ScanEndpoints, options \in PlanOptionSets :
       /\ input = [endpoints |-> <<d>>, options |-> options]
       /\ report = NewReport(<<d>>)
  /\ pc = "loop"
  /\ loopIndex = 0
  /\ cur = NoEndpointResult
  /\ pos = NoPosition
  /\ baseline = [status |-> Null, responseTime |-> 0]
  /\ progress = <<>>
  /\ sent = NoRequest
  /\ last = NoSendResult
  /\ \E used \in {MaxIncidents - 1, MaxIncidents} :
       env = [analyzeCalls |-> 0, incidents |-> used]

SpecPlan == PlanInit /\ [][Next]_vars

(***************************************************************************)
(* Scans of one endpoint of each shape with injectLocation 'all', given or *)
(* by default                                                              *)
(***************************************************************************)

PointEndpoints == EndpointDescriptors \cup {EpNoUrl}

PointOptionSets ==
  { [scanTypes |-> <<"SQL Injection">>, maxPayloads |-> 2, injectLocation |-> "all"],
    [scanTypes |-> <<"XSS", "Header Injection">>, maxPayloads |-> 1, injectLocation |-> ""] }

PointsInit ==
  /\ call = NoCall
  /\ InjectIdle
  /\ ServerIdle
  /\ \E d \in PointEndpoints, options \in PointOptionSets :
       /\ input = [endpoints |-> <<d>>, options |-> options]
       /\ report = NewReport(<<d>>)
  /\ pc = "loop"
  /\ loopIndex = 0
  /\ cur = NoEndpointResult
  /\ pos = NoPosition
  /\ baseline = [status |-> Null, responseTime |-> 0]
  /\ progress = <<>>
  /\ sent = NoRequest
  /\ last = NoSendResult
  /\ env = [analyzeCalls |-> 0, incidents |-> 0]

SpecPoints == PointsInit /\ [][Next]_vars

\* every request is answered or times out and every timer fires
FairSpec == ScanInit /\ [][Next]_vars /\ WF_vars(Next)

(***************************************************************************)
(* The scan registry of the server (server.js: activeScans, POST           *)
(* /api/scan, GET /api/scan/:scanId).  Every POST draws a fresh uuid; the   *)
(* handler runs up to `await scanner.runScan(...)`, is resumed when runScan *)
(* resolves, and the progress callback runs in between, once per endpoint.  *)
(* runScan catches what scanning an endpoint throws, so the catch of the    *)
(* handler is reached from the handler's own synchronous part only.         *)
(***************************************************************************)

MaxScans == 2
MaxListed == 2

ScanIds == 1..MaxScans

\* the uuids drawn: const scanId = uuidv4() by each POST /api/scan, then
\* scanId: require('uuid').v4() by the runScan it calls; no two draws are equal
Uuids == 1..(2 * MaxScans)

\* results.scanId of the report runScan builds for the POST that drew scanId
reportScanId(scanId) == MaxScans + scanId

\* what a POST /api/scan carries
PostBodies ==
  { [kind |-> "badJson", endpoints |-> 0],      \* JSON.parse throws
    [kind |-> "noInput", endpoints |-> 0],      \* neither collection, curl nor endpoints
    [kind |-> "noEndpoints", endpoints |-> 0],  \* nothing could be extracted
    [kind |-> "nullEndpoint", endpoints |-> 1]  \* endpoints: [null]
  } \cup { [kind |-> "endpoints", endpoints |-> n] : n \in 1..MaxListed }

HandlerIdle == [pc |-> "idle", kind |-> "", left |-> 0, status |-> 0]

\* activeScans.set(scanId, value)
RegistrySet(reg, scanId, value) ==
  [id \in DOMAIN reg \cup {scanId} |-> IF id = scanId THEN value ELSE reg[id]]

\* activeScans.delete(scanId)
RegistryDelete(reg, scanId) == [id \in DOMAIN reg \ {scanId} |-> reg[id]]

\* the catch of POST /api/scan sets no timer
errorTimers(pending, scanId) == pending

\* scanInfo.progress = progress, when the entry is there
progressWrite(reg, scanId, current) ==
  IF scanId \in DOMAIN reg
  THEN [reg EXCEPT ![scanId] = [@ EXCEPT !.current = current]]
  ELSE reg

RegistryInit ==
  /\ call = NoCall
  /\ InjectIdle
  /\ ScanAtRest
  /\ TransportIdle
  /\ RunsIdle
  /\ registry = <<>>
  /\ timers = {}
  /\ reply = NoReply
  /\ handlers = [id \in ScanIds |-> HandlerIdle]

RegistryFrame ==
  /\ UNCHANGED <<call, transport, runs, inflight>>
  /\ UNCHANGED injectVars
  /\ UNCHANGED scanVars

\* POST /api/scan up to its first suspension or its response: the input is
\* parsed; 400 without an entry; the entry 'running'; runScan up to its first
\* await, the progress callback of the first endpoint included
PostScan(scanId) ==
  /\ handlers[scanId].pc = "idle"
  /\ \A id \in ScanIds : id < scanId => handlers[id].pc # "idle"
  /\ \E body \in PostBodies :
       CASE body.kind = "badJson" ->
              /\ registry' = RegistrySet(registry, scanId,
                                         [status |-> "error", current |-> 0, total |-> 0])
              /\ timers' = errorTimers(timers, scanId)
              /\ handlers' = [handlers EXCEPT ![scanId] =
                                [pc |-> "responded", kind |-> body.kind, left |-> 0,
                                 status |-> 500]]
         [] body.kind \in {"noInput", "noEndpoints"} ->
              /\ handlers' = [handlers EXCEPT ![scanId] =
                                [pc |-> "responded", kind |-> body.kind, left |-> 0,
                                 status |-> 400]]
              /\ UNCHANGED <<registry, timers>>
         [] body.kind = "nullEndpoint" ->
              \* the entry 'running' is written, then e.method of the null
              \* endpoint throws in the handler's log line: the catch
              /\ registry' = RegistrySet(
                               RegistrySet(registry, scanId,
                                           [status |-> "running", current |-> 0,
                                            total |-> body.endpoints]),
                               scanId, [status |-> "error", current |-> 0, total |-> 0])
              /\ timers' = errorTimers(timers, scanId)
              /\ handlers' = [handlers EXCEPT ![scanId] =
                                [pc |-> "responded", kind |-> body.kind, left |-> 0,
                                 status |-> 500]]
         [] body.kind = "endpoints" ->
              /\ registry' = progressWrite(
                               RegistrySet(registry, scanId,
                                           [status |-> "running", current |-> 0,
                                            total |-> body.endpoints]),
                               scanId, 1)
              /\ handlers' = [handlers EXCEPT ![scanId] =
                                [pc |-> "scanning", kind |-> body.kind,
                                 left |-> body.endpoints - 1, status |-> 0]]
              /\ UNCHANGED timers
  /\ UNCHANGED reply
  /\ RegistryFrame

\* runScan reaches its next endpoint: the progress callback
ProgressCallback(scanId) ==
  /\ handlers[scanId].pc = "scanning"
  /\ handlers[scanId].kind = "endpoints"
  /\ handlers[scanId].left > 0
  /\ registry' = progressWrite(registry, scanId, registry[scanId].current + 1)
  /\ handlers' = [handlers EXCEPT ![scanId].left = @ - 1]
  /\ UNCHANGED <<timers, reply>>
  /\ RegistryFrame

\* runScan resolved: the entry 'completed', the timer of one hour, the answer
ScanCompleted(scanId) ==
  /\ handlers[scanId].pc = "scanning"
  /\ handlers[scanId].kind = "endpoints"
  /\ handlers[scanId].left = 0
  /\ registry' = RegistrySet(registry, scanId,
                             [status |-> "completed", current |-> registry[scanId].total,
                              total |-> registry[scanId].total,
                              results |-> [scanId |-> reportScanId(scanId)]])
  /\ timers' = timers \cup {scanId}
  /\ handlers' = [handlers EXCEPT ![scanId].pc = "responded", ![scanId].status = 200]
  /\ UNCHANGED reply
  /\ RegistryFrame

\* setTimeout(() => activeScans.delete(scanId), 3600000) fires
TimerFires(scanId) ==
  /\ scanId \in timers
  /\ registry' = RegistryDelete(registry, scanId)
  /\ timers' = timers \ {scanId}
  /\ UNCHANGED <<reply, handlers>>
  /\ RegistryFrame

\* GET /api/scan/:scanId
GetStatus(scanId) ==
  /\ reply' = IF scanId \in DOMAIN registry
              THEN [status |-> 200, scanId |-> scanId, body |-> registry[scanId].status]
              ELSE [status |-> 404, scanId |-> scanId, body |-> "Scan not found"]
  /\ UNCHANGED <<registry, timers, handlers>>
  /\ RegistryFrame

RegistryNext ==
  \/ \E scanId \in ScanIds :
       \/ PostScan(scanId)
       \/ ProgressCallback(scanId)
       \/ ScanCompleted(scanId)
       \/ TimerFires(scanId)
  \/ \E scanId \in Uuids : GetStatus(scanId)

\* every scan settles and every timer fires
SpecRegistry ==
  /\ RegistryInit
  /\ [][RegistryNext]_vars
  /\ \A scanId \in ScanIds :
       /\ WF_vars(ProgressCallback(scanId))
       /\ WF_vars(ScanCompleted(scanId))
       /\ WF_vars(TimerFires(scanId))

(***************************************************************************)
(* Several runScan invocations at once (one per POST /api/scan being       *)
(* served).  Each invocation is an asynchronous function of its own: it    *)
(* holds its loop position in locals and is suspended at `await            *)
(* sendRequest(...)` and at the pause.  The invocations share the event     *)
(* loop only: requests of different invocations are in flight together and *)
(* settle in any order.                                                    *)
(***************************************************************************)

MaxRuns == 2

RunIds == 1..MaxRuns

\* the arguments the invocations are called with
RunInputs ==
  { [endpoints |-> <<EpLogin>>,
     options |-> [scanTypes |-> <<"Path Traversal", "XSS">>, maxPayloads |-> 1,
                  injectLocation |-> "body"]],
    [endpoints |-> <<EpNoUrl, EpLogin>>,
     options |-> [scanTypes |-> <<"Command Injection">>, maxPayloads |-> 2,
                  injectLocation |-> ""]] }

RECURSIVE ProbeCount(_, _, _)
\* the number of sendRequest(injectedEndpoint) calls the loops of scanEndpoint
\* make from payload up.p of scanner up.s on
ProbeCount(d, options, up) ==
  IF up.s = 0 THEN 0
  ELSE LET use == scannersToUse(options)
           injection == InjectInto(d, payloadsOf(use[up.s], options)[up.p],
                                   injectLocation(options))
       IN  Len(endpointsToTest(injection.out))
             + ProbeCount(d, options, NextPayload(use, options, up.s, up.p))

FirstPayload(options) == NextPayload(scannersToUse(options), options, 1, 0)

\* injectPayload throws for the first payload already (it throws for all or none)
ThrowsOn(d, options) ==
  /\ FirstPayload(options).s # 0
  /\ InjectInto(d, payloadsOf(scannersToUse(options)[FirstPayload(options).s],
                              options)[FirstPayload(options).p],
                injectLocation(options)).threw

RunIdle == [pc |-> "idle", input |-> 0, i |-> 0, left |-> 0, seq |-> 0]

\* an invocation that goes on without waiting for the request it dispatched
fireAndForget(kind) == "next"

\* `await sendRequest(...)`: the invocation is suspended until the request settles
awaitRequest(kind) == kind

InFlightOf(id) == {r \in inflight : r.run = id}

RunsInit ==
  /\ call = NoCall
  /\ InjectIdle
  /\ ScanAtRest
  /\ TransportIdle
  /\ RegistryIdle
  /\ runs = [id \in RunIds |-> RunIdle]
  /\ inflight = {}

RunsFrame ==
  /\ UNCHANGED <<call, transport, registry, timers, reply, handlers>>
  /\ UNCHANGED injectVars
  /\ UNCHANGED scanVars

\* runScan(endpoints, options, progressCallback) is called
RunStart(id) ==
  /\ runs[id].pc = "idle"
  /\ \E args \in RunInputs :
       runs' = [runs EXCEPT ![id] = [pc |-> "loop", input |-> args, i |-> 0,
                                     left |-> 0, seq |-> 0]]
  /\ UNCHANGED inflight
  /\ RunsFrame

\* the head of runScan's loop up to `await getBaseline(endpoint)`
RunBeginEndpoint(id) ==
  /\ runs[id].pc = "loop"
  /\ runs[id].i < Len(runs[id].input.endpoints)
  /\ inflight' = inflight \cup {[run |-> id, kind |-> "baseline",
                                 endpoint |-> runs[id].i + 1, seq |-> runs[id].seq + 1]}
  /\ runs' = [runs EXCEPT ![id].pc = awaitRequest("baseline"), ![id].seq = @ + 1]
  /\ RunsFrame

\* the baseline request of the invocation settles
RunBaselineResolved(id) ==
  /\ runs[id].pc = "baseline"
  /\ \E r \in InFlightOf(id) :
       /\ r.kind = "baseline"
       /\ inflight' = inflight \ {r}
  /\ runs' = [runs EXCEPT
                ![id].pc = "next",
                ![id].left =
                   LET d == runs[id].input.endpoints[runs[id].i + 1]
                       options == runs[id].input.options
                   IN  IF ThrowsOn(d, options) THEN -1
                       ELSE ProbeCount(d, options, FirstPayload(options))]
  /\ RunsFrame

\* the loops of scanEndpoint up to the next `await sendRequest(injectedEndpoint)`
RunDispatch(id) ==
  /\ runs[id].pc = "next"
  /\ runs[id].left > 0
  /\ inflight' = inflight \cup {[run |-> id, kind |-> "probe",
                                 endpoint |-> runs[id].i + 1, seq |-> runs[id].seq + 1]}
  /\ runs' = [runs EXCEPT ![id].pc = awaitRequest("probe"), ![id].seq = @ + 1,
                          ![id].left = @ - 1]
  /\ RunsFrame

\* the probe of the invocation settles: a transport failure goes on at once,
\* an analyzed response is followed by the pause
RunProbeResolved(id) ==
  /\ runs[id].pc = "probe"
  /\ \E r \in InFlightOf(id) :
       /\ r.kind = "probe"
       /\ inflight' = inflight \ {r}
  /\ \E failed \in BOOLEAN :
       runs' = [runs EXCEPT ![id].pc = IF failed THEN "next" ELSE "delay"]
  /\ RunsFrame

\* await new Promise(resolve => setTimeout(resolve, 50))
RunDelayElapsed(id) ==
  /\ runs[id].pc = "delay"
  /\ runs' = [runs EXCEPT ![id].pc = "next"]
  /\ UNCHANGED inflight
  /\ RunsFrame

\* scanEndpoint returned or threw: the result is pushed, the loop goes on
RunEndpointDone(id) ==
  /\ runs[id].pc = "next"
  /\ runs[id].left <= 0
  /\ runs' = [runs EXCEPT ![id].pc = "loop", ![id].i = @ + 1, ![id].left = 0]
  /\ UNCHANGED inflight
  /\ RunsFrame

\* runScan returns its results
RunFinish(id) ==
  /\ runs[id].pc = "loop"
  /\ runs[id].i = Len(runs[id].input.endpoints)
  /\ runs' = [runs EXCEPT ![id].pc = "done"]
  /\ UNCHANGED inflight
  /\ RunsFrame

RunsNext ==
  \E id \in RunIds :
    \/ RunStart(id)
    \/ RunBeginEndpoint(id)
    \/ RunBaselineResolved(id)
    \/ RunDispatch(id)
    \/ RunProbeResolved(id)
    \/ RunDelayElapsed(id)
    \/ RunEndpointDone(id)
    \/ RunFinish(id)

SpecRuns == RunsInit /\ [][RunsNext]_vars

(***************************************************************************)
(* Properties of the scan                                                  *)
(***************************************************************************)

\* scanEndpoint is under way: cur is the result it is building
Scanning == pc \in {"baseline", "next", "probe", "delay"}

RECURSIVE RecordsIn(_, _)
\* the number of TestRecords in the first n endpoint results of the report
RecordsIn(results, n) ==
  IF n = 0 THEN 0 ELSE RecordsIn(results, n - 1) + Len(results[n].tests)

TotalRecords ==
  RecordsIn(report.endpoints, Len(report.endpoints))
    + (IF Scanning THEN Len(cur.tests) ELSE 0)

\* (number of selected analyzers) x maxPayloads x 2
PerEndpointCap == Len(scannersToUse(input.options)) * input.options.maxPayloads * 2

\* C1: with maxPayloads >= 1 no endpoint ever has more TestRecords than
\* (number of selected analyzers) x maxPayloads x 2; with one analyzer type
\* selected and maxPayloads = 3, a scan of N endpoints never holds more than
\* N x 3 x 2 TestRecords
Inv_C1 ==
  input.options.maxPayloads >= 1 =>
    /\ Len(cur.tests) <= PerEndpointCap
    /\ \A k \in 1..Len(report.endpoints) :
         Len(report.endpoints[k].tests) <= PerEndpointCap
    /\ (Len(input.options.scanTypes) = 1 /\ input.options.maxPayloads = 3) =>
         TotalRecords <= Len(input.endpoints) * 3 * 2

\* a finished scan of two endpoints with one analyzer and maxPayloads = 3 that
\* holds 2 x 3 x 2 records
Witness_C1 ==
  /\ pc = "done"
  /\ Len(input.options.scanTypes) = 1
  /\ input.options.maxPayloads = 3
  /\ Len(input.endpoints) = 2
  /\ TotalRecords = 12

Labels(out) == [n \in 1..Len(out) |-> out[n].injectionPoint]

IndexIn(seq, x) == CHOOSE n \in 1..Len(seq) : seq[n] = x

\* where a record stands: its analyzer in the registry, its payload in the
\* analyzer's catalog, its variant among the variants injectPayload returns
Rank(d, t) ==
  << IndexIn(scanners, t.type),
     IndexIn(getPayloads(t.type), t.payload),
     IndexIn(Labels(InjectInto(d, t.payload, injectLocation(input.options)).out),
             t.injectionPoint) >>

Before(a, b) ==
  \/ a[1] < b[1]
  \/ a[1] = b[1] /\ a[2] < b[2]
  \/ a[1] = b[1] /\ a[2] = b[2] /\ a[3] < b[3]

InOrder(d, tests) ==
  \A n \in 1..(Len(tests) - 1) : Before(Rank(d, tests[n]), Rank(d, tests[n + 1]))

\* C2: the TestRecords of an endpoint stand in the order analyzer (registry
\* order), then payload (catalog order), then variant (the order injectPayload
\* returned them), whether the probes ended PASS, FAIL or ERROR
Inv_C2 ==
  /\ Scanning => InOrder(Endpoint, cur.tests)
  /\ \A k \in 1..Len(report.endpoints) :
       InOrder(input.endpoints[k], report.endpoints[k].tests)

\* two analyzers, selected in the reverse of their registry order, have each
\* probed two variants of an endpoint, one probe ending in ERROR
Witness_C2 ==
  /\ Len(cur.tests) = 4
  /\ cur.tests[1].type = "XSS" /\ cur.tests[2].type = "XSS"
  /\ cur.tests[3].type = "Path Traversal" /\ cur.tests[4].type = "Path Traversal"
  /\ cur.tests[1].injectionPoint # cur.tests[2].injectionPoint
  /\ \E n \in 1..4 : cur.tests[n].result = "ERROR"
  /\ \E n \in 1..4 : cur.tests[n].result = "PASS"

\* scanning the endpoint raises an exception that scanEndpoint does not catch
Raises(d) == d.url = UndefinedUrl /\ injectLocation(input.options) \in {"path", "all"}

ReportComplete ==
  pc = "done" =>
    /\ Len(report.endpoints) = Len(input.endpoints)
    /\ \A k \in 1..Len(input.endpoints) :
         /\ report.endpoints[k].api = input.endpoints[k].name
         /\ Raises(input.endpoints[k]) =>
              /\ report.endpoints[k].tests = <<>>
              /\ report.endpoints[k].summary.total = 0
              /\ report.endpoints[k].summary.errors = 1
         /\ ~Raises(input.endpoints[k]) => Len(report.endpoints[k].tests) > 0

EarlierResultsKept ==
  \A k \in 1..Len(report.endpoints) :
    /\ Len(report'.endpoints) >= k
    /\ report'.endpoints[k] = report.endpoints[k]

\* C3: runScan terminates, its report then holds one EndpointScanResult per
\* input endpoint in input order, an endpoint whose scan raised an exception
\* has a result without tests and with an error counted, after which the next
\* endpoint is scanned, and a result once recorded is never changed
Prop_C3 ==
  /\ <>(pc = "done")
  /\ []ReportComplete
  /\ [][EarlierResultsKept]_vars

\* a finished scan in which the scan of the first endpoint raised an exception
\* and the second endpoint was probed
Witness_C3 ==
  /\ pc = "done"
  /\ Len(input.endpoints) = 2
  /\ Raises(input.endpoints[1])
  /\ report.endpoints[1].tests = <<>>
  /\ Len(report.endpoints[2].tests) > 0

\* a probe is in flight and its request resolves with a transport failure
TransportFailureStep == pc = "probe" /\ pc' # "probe" /\ ~last'.success

\* C4: when a probe ends in a transport failure no analyzer is called, one
\* record marked ERROR is added, errors is incremented while total, passed and
\* failed stay, and the scan goes on with the next variant
Prop_C4 ==
  [][/\ TransportFailureStep =>
          /\ env'.analyzeCalls = env.analyzeCalls
          /\ Len(cur'.tests) = Len(cur.tests) + 1
          /\ SubSeq(cur'.tests, 1, Len(cur.tests)) = cur.tests
          /\ cur'.tests[Len(cur'.tests)].result = "ERROR"
          /\ cur'.summary = [cur.summary EXCEPT !.errors = @ + 1]
          /\ pc' = "next"
          /\ pos' = pos
     /\ (pc = "next" /\ MoreVariants) =>
          /\ pc' = "probe"
          /\ sent' = pos.injected[pos.v + 1]]_vars

\* a probe of a reachable endpoint failed in transport and the next variant
\* was probed and analyzed
Witness_C4 ==
  /\ Len(cur.tests) = 2
  /\ cur.tests[1].result = "ERROR"
  /\ cur.tests[1].responseCode = 0
  /\ cur.tests[2].result = "PASS"
  /\ cur.tests[1].payload = cur.tests[2].payload
  /\ cur.summary.errors = 1 /\ cur.summary.passed = 1
  /\ env.incidents = 1

(***************************************************************************)
(* Properties of injectPayload                                             *)
(***************************************************************************)

\* the variants the latest call returned
Returned == SubSeq(variants, lastCall.first, lastCall.first + lastCall.count - 1)

\* the source endpoint as it read before any call
Original == shadow[1]

EntriesOf(m) == IF m = Absent THEN <<>> ELSE m

QueryKeys == Keys(EntriesOf(Original.queryParams))

BodyKeys == IF Original.bodyKind = "object" THEN Keys(EntriesOf(Original.body)) ELSE <<>>

AllOnStructuredBody ==
  /\ lastCall.calls > 0
  /\ lastCall.location = "all"
  /\ Original.method \in {"POST", "PUT", "PATCH"}
  /\ Original.bodyKind = "object"

\* query keys in order, q, body keys in order, input, header, path
ExpectedAllLabels ==
  [n \in 1..Len(QueryKeys) |-> "Query param: " \o QueryKeys[n]]
  \o <<"Query param: q (injected)">>
  \o [n \in 1..Len(BodyKeys) |-> "Body param: " \o BodyKeys[n]]
  \o <<"Body param: input (injected)", "Header: X-Test-Input (injected)",
       "URL path (appended)">>

\* C5: injectPayload with location 'all' on an endpoint with Q query keys, a
\* structured body of B keys and method POST, PUT or PATCH returns exactly
\* Q + 1 + B + 1 + 1 + 1 variants: one per query key in key order, the added
\* query parameter q, one per body key in key order, the added body field
\* input, the injected header, the appended path segment; each per-key variant
\* has that key's value replaced by the payload
Inv_C5 ==
  AllOnStructuredBody =>
    /\ lastCall.count = Len(QueryKeys) + 1 + Len(BodyKeys) + 1 + 1 + 1
    /\ Labels(Returned) = ExpectedAllLabels
    /\ lastCall.writes = 0 =>
         /\ \A n \in 1..Len(QueryKeys) :
              Deref(heap, Returned[n]).queryParams
                = MapSet(Original.queryParams, QueryKeys[n], lastCall.payload)
         /\ \A n \in 1..Len(BodyKeys) :
              Deref(heap, Returned[Len(QueryKeys) + 1 + n]).body
                = MapSet(Original.body, BodyKeys[n], lastCall.payload)

\* the example of the claim: query {a: 1}, body {b: 2}, POST gives six variants
Witness_C5 ==
  /\ AllOnStructuredBody
  /\ Original.name = "login"
  /\ QueryKeys = <<"a">> /\ BodyKeys = <<"b">>
  /\ lastCall.count = 6

\* C6: injectPayload leaves the source endpoint as it was, and no returned
\* variant shares a headers, body or queryParams object with the source or
\* with another variant: a write into one variant shows in that variant only
Inv_C6 ==
  /\ Deref(heap, source) = Original
  /\ \A n \in 1..Len(variants) :
       /\ Deref(heap, variants[n]) = shadow[n + 1]
       /\ Refs(variants[n]) \cap Refs(source) = {}
       /\ \A m \in 1..Len(variants) :
            m # n => Refs(variants[n]) \cap Refs(variants[m]) = {}

\* a call on a source with nested objects has returned several variants and
\* the caller has written into one of them
Witness_C6 ==
  /\ lastCall.calls > 0
  /\ lastCall.writes > 0
  /\ Len(variants) >= 2
  /\ Refs(source) # {}
  /\ \E n \in 1..Len(variants) : Deref(heap, variants[n]).queryParams # Original.queryParams

\* no rule of the call applies: only the body rule was asked for, the body is
\* not structured and the method carries no body
NoRuleApplies ==
  /\ lastCall.location = "body"
  /\ Original.bodyKind # "object"
  /\ Original.method \notin {"POST", "PUT", "PATCH"}

FallbackLabel == "Query param: test (fallback)"

AnalyzerReturned == call.phase = "returned"

CallBody == ResponseBody(call.response)

\* the block phrases every analyzer that looks for a WAF has in its list
SharedWafPhrases ==
  {p \in {sql_wafIndicators[n] : n \in 1..Len(sql_wafIndicators)} :
     \A list \in {xss_wafIndicators, cmd_wafIndicators, path_wafIndicators,
                  nosql_wafIndicators, header_wafIndicators, rate_wafIndicators} :
       \E n \in 1..Len(list) : list[n] = p}

WafBlockedResponse ==
  /\ call.response.status \in {403, 406, 429}
  /\ \E p \in SharedWafPhrases : Includes(CallBody, p)

\* C8: for a response with status 403, 406 or 429 whose body contains a WAF
\* indicator phrase, each of the ten analyzers returns vulnerable = false and
\* confidence = high, whatever the payload and the baseline
Inv_C8 ==
  (AnalyzerReturned /\ WafBlockedResponse) =>
    /\ call.result.vulnerable = FALSE
    /\ call.result.confidence = "high"

\* the error-leak signatures of the three analyzers
ErrorLeakSignature ==
  CASE call.type = "Malformed Payload" -> SomeTest(verboseErrorPatterns, CallBody)
    [] call.type = "SQL Injection" -> SomeTest(sqlErrorPatterns, CallBody)
    [] call.type = "Command Injection" -> SomeTest(commandOutputPatterns, CallBody)
    [] OTHER -> FALSE

\* C9: for a response with status 500 whose body matches an error-leak
\* signature of the analyzer, the malformed-payload, SQL and command-injection
\* analyzers return vulnerable = true with confidence = high, whatever else the
\* body matches and whatever the baseline status
Inv_C9 ==
  (AnalyzerReturned /\ call.response.status = 500 /\ ErrorLeakSignature) =>
    /\ call.result.vulnerable = TRUE
    /\ call.result.confidence = "high"

TraversalAppeared ==
  /\ AnalyzerReturned
  /\ call.type = "Path Traversal"
  /\ call.originalStatus = 404
  /\ call.response.status = 200

\* C10 as stated: with baseline status 404 and response status 200 the
\* path-traversal analyzer returns vulnerable = true with confidence = medium,
\* for every response body and content type
Inv_C10_AsStated ==
  TraversalAppeared =>
    /\ call.result.vulnerable = TRUE
    /\ call.result.confidence = "medium"

EdgeProxyFingerprint == Includes(CallBody, <<"cloudflare", "ray", "id">>)

\* C10: with baseline status 404 and response status 200 the path-traversal
\* analyzer returns vulnerable = true with confidence = medium for every
\* content type and every response body that does not contain the edge-proxy
\* fingerprint "cloudflare ray id"; a body that contains it is reported as
\* blocked: vulnerable = false, confidence = high
Inv_C10 ==
  TraversalAppeared =>
    IF EdgeProxyFingerprint
    THEN call.result.vulnerable = FALSE /\ call.result.confidence = "high"
    ELSE call.result.vulnerable = TRUE /\ call.result.confidence = "medium"

\* a 200 after a 404 whose body is a passwd line served as a binary download
Witness_C10 ==
  /\ TraversalAppeared
  /\ SomeTest(fileContentPatterns, CallBody)
  /\ SomeIncludes(path_binaryTypes, Header(call.response, "content-type"))
  /\ call.result.vulnerable = TRUE
  /\ call.result.confidence = "medium"


AuthBypassAnswer ==
  /\ AnalyzerReturned
  /\ call.type = "SQL Injection"
  /\ call.payload = <<"'", "OR", "'1'='1">>
  /\ call.response.status = 200
  /\ Includes(CallBody, <<"token", "\":", "\"abc\"">>)

AuthBypassNote ==
  "VULNERABLE: SQL injection payload resulted in successful authentication"

\* C11: for the payload ' OR '1'='1 and a response with status 200 whose body
\* contains "token":"abc", the SQL analyzer returns vulnerable = true,
\* confidence = high and the note about the successful authentication, for
\* every baseline status
Inv_C11 ==
  AuthBypassAnswer =>
    /\ call.result.vulnerable = TRUE
    /\ call.result.confidence = "high"
    /\ call.result.notes = AuthBypassNote

ScriptReflected ==
  /\ AnalyzerReturned
  /\ call.type = "XSS"
  /\ call.payload = <<"<script>", "alert(1)", "</script>">>
  /\ call.response.status = 200
  /\ Includes(CallBody, call.payload)

\* C12 as stated: for the payload <script>alert(1)</script> and a response with
\* status 200 whose body contains the payload unescaped, the XSS analyzer
\* returns vulnerable = true with confidence = high
Inv_C12_AsStated ==
  ScriptReflected =>
    /\ call.result.vulnerable = TRUE
    /\ call.result.confidence = "high"

ProxyFingerprintXss ==
  \/ Includes(CallBody, <<"cloudflare", "ray", "id">>)
  \/ Includes(CallBody, <<"cf-ray">>)

\* C12: for the payload <script>alert(1)</script> and a response with status
\* 200 whose body contains the payload unescaped, the XSS analyzer returns
\* vulnerable = true with confidence = high unless the body also contains an
\* edge-proxy fingerprint ("cloudflare ray id" or "cf-ray"); then it reports
\* the request as blocked: vulnerable = false, confidence = high
Inv_C12 ==
  ScriptReflected =>
    IF ProxyFingerprintXss
    THEN call.result.vulnerable = FALSE /\ call.result.confidence = "high"
    ELSE call.result.vulnerable = TRUE /\ call.result.confidence = "high"

\* the payload came back as the whole body of a 200 and was reported
Witness_C12 ==
  /\ ScriptReflected
  /\ ~ProxyFingerprintXss
  /\ call.result.vulnerable = TRUE
  /\ call.result.confidence = "high"
  /\ Len(call.result.indicators) >= 2


(***************************************************************************)
(* Properties of the progress events                                       *)
(***************************************************************************)

EventsNumbered ==
  \A k \in 1..Len(progress) :
    /\ progress[k].current = k
    /\ progress[k].total = Len(input.endpoints)
    /\ progress[k].endpoint = input.endpoints[k].name

\* C13 as stated: one progress event per endpoint, current = 1..N in
\* increasing order and total = N, and the event of endpoint i is emitted
\* after the result of endpoint i has been appended to the report
Inv_C13_AsStated ==
  /\ EventsNumbered
  /\ \A k \in 1..Len(progress) : Len(report.endpoints) >= k
  /\ pc = "done" => Len(progress) = Len(input.endpoints)

\* C13: one progress event per endpoint, current = 1..N in increasing order
\* and total = N; the event of endpoint i is emitted when the scan of endpoint
\* i starts, before its baseline request, while the report holds the results
\* of the endpoints 1..i-1 only
Inv_C13 ==
  /\ EventsNumbered
  /\ Len(progress) = Len(report.endpoints) + (IF Scanning THEN 1 ELSE 0)
  /\ pc = "done" => Len(progress) = Len(input.endpoints)

\* the scan of the second endpoint is under way: two events, one result
Witness_C13 ==
  /\ pc = "probe"
  /\ Len(progress) = 2
  /\ progress[2].current = 2
  /\ Len(report.endpoints) = 1


(***************************************************************************)
(* Properties of the request dispatcher                                    *)
(***************************************************************************)

SendSettled == transport.state \in {"resolved", "rejected"}

\* no response arrived: axios rejected, or the request could not be built
TransportLevelFailure ==
  \/ transport.outcome.kind = "error"
  \/ transport.request.url = UndefinedUrl

\* the error that made the call fail
FailureCause ==
  IF transport.request.url = UndefinedUrl THEN UrlTypeError ELSE transport.outcome

\* C14: sendRequest always resolves and never throws to its caller; when the
\* request fails at transport level the result has success = false, a
\* response with status 0 and an error message that is the connection-refused
\* text for ECONNREFUSED, the timed-out text for ETIMEDOUT and the message of
\* the error otherwise
Inv_C14 ==
  SendSettled =>
    /\ transport.state = "resolved"
    /\ TransportLevelFailure =>
         /\ transport.result.success = FALSE
         /\ transport.result.response.status = 0
         /\ transport.result.error =
              (CASE FailureCause.code = "ECONNREFUSED" ->
                      "Connection refused - server may be down"
                 [] FailureCause.code = "ETIMEDOUT" -> "Request timed out"
                 [] OTHER -> FailureCause.text)
    /\ ~TransportLevelFailure => transport.result.success = TRUE

\* a refused connection was reported as such
Witness_C14 ==
  /\ transport.state = "resolved"
  /\ transport.outcome.kind = "error"
  /\ transport.outcome.code = "ECONNREFUSED"
  /\ transport.result.success = FALSE
  /\ transport.result.response.status = 0
  /\ transport.result.error = "Connection refused - server may be down"


(***************************************************************************)
(* Properties of the report summary                                        *)
(***************************************************************************)

\* the FAIL records of one endpoint result, in record order
FailsOf(er) ==
  LET fails == SelectSeq(er.tests, LAMBDA t : t.result = "FAIL")
  IN  [k \in 1..Len(fails) |->
         [endpoint |-> er.api, type |-> fails[k].type, severity |-> fails[k].severity,
          payload |-> fails[k].payload, confidence |-> fails[k].confidence]]

RECURSIVE FailsUpTo(_, _)
\* the FAIL records of the first n endpoint results, in endpoint order
FailsUpTo(results, n) ==
  IF n = 0 THEN <<>> ELSE FailsUpTo(results, n - 1) \o FailsOf(results[n])

\* C15: summary.vulnerabilities holds one entry for every record with verdict
\* FAIL and none for a PASS or ERROR record, in endpoint order and then record
\* order, so its length equals summary.failed
Inv_C15 ==
  /\ report.summary.vulnerabilities = FailsUpTo(report.endpoints, Len(report.endpoints))
  /\ Len(report.summary.vulnerabilities) = report.summary.failed

\* a returned report with three vulnerabilities from two endpoints whose
\* records also hold a PASS and an ERROR
Witness_C15 ==
  /\ pc = "done"
  /\ Len(report.endpoints) = 2
  /\ Len(report.summary.vulnerabilities) >= 3
  /\ \E n \in 1..Len(report.endpoints[1].tests) : report.endpoints[1].tests[n].result = "FAIL"
  /\ \E n \in 1..Len(report.endpoints[2].tests) : report.endpoints[2].tests[n].result = "FAIL"
  /\ \E e \in 1..2 : \E n \in 1..Len(report.endpoints[e].tests) :
       report.endpoints[e].tests[n].result = "PASS"
  /\ \E e \in 1..2 : \E n \in 1..Len(report.endpoints[e].tests) :
       report.endpoints[e].tests[n].result = "ERROR"


(***************************************************************************)
(* Properties of the analyzer and payload selection                        *)
(***************************************************************************)

\* the analyzers the options name, in registry order; all when none are named
ClaimedTypes ==
  IF input.options.scanTypes = NoScanTypes THEN scanners
  ELSE SelectSeq(scanners,
                 LAMBDA t : \E n \in 1..Len(input.options.scanTypes) :
                              input.options.scanTypes[n] = t)

\* the first maxPayloads payloads of a catalog, the first 5 when the option is missing
ClaimedPayloads(type) ==
  LET m == IF input.options.maxPayloads = 0 THEN 5 ELSE input.options.maxPayloads
      catalog == getPayloads(type)
  IN  SubSeq(catalog, 1, IF m < Len(catalog) THEN m ELSE Len(catalog))

\* the endpoint was scanned to its end
ScannedToEnd == pc = "done" /\ Len(report.endpoints) = 1 /\ ~Raises(input.endpoints[1])

\* C16: for an endpoint the orchestrator runs exactly the analyzers whose type
\* is in options.scanTypes (all ten when scanTypes is absent), in registry
\* order, and probes for each of them exactly the first options.maxPayloads
\* payloads of its catalog (the first 5 when maxPayloads is absent); no later
\* payload is probed
Inv_C16 ==
  ScannedToEnd =>
    LET tests == report.endpoints[1].tests
    IN  /\ \A k \in 1..Len(ClaimedTypes) :
             \A j \in 1..Len(ClaimedPayloads(ClaimedTypes[k])) :
               \E n \in 1..Len(tests) :
                 /\ tests[n].type = ClaimedTypes[k]
                 /\ tests[n].payload = ClaimedPayloads(ClaimedTypes[k])[j]
        /\ \A n \in 1..Len(tests) :
             /\ \E k \in 1..Len(ClaimedTypes) : tests[n].type = ClaimedTypes[k]
             /\ \E j \in 1..Len(ClaimedPayloads(tests[n].type)) :
                  tests[n].payload = ClaimedPayloads(tests[n].type)[j]
        /\ \A n \in 1..(Len(tests) - 1) :
             IndexIn(scanners, tests[n].type) <= IndexIn(scanners, tests[n + 1].type)


(***************************************************************************)
(* Properties of the scan registry                                         *)
(***************************************************************************)

\* C17: every entry written to the registry, whether its scan ended as
\* completed or as error, is eventually evicted, and a status query for an
\* evicted scan identifier answers not-found
Prop_C17 ==
  /\ \A scanId \in ScanIds :
       (scanId \in DOMAIN registry) ~> (scanId \notin DOMAIN registry)
  /\ [][\A scanId \in ScanIds :
          (/\ handlers[scanId].pc = "responded"
           /\ scanId \notin DOMAIN registry
           /\ reply' # reply
           /\ reply'.scanId = scanId) => reply'.status = 404]_vars


(***************************************************************************)
(* Properties of interleaved scans                                         *)
(***************************************************************************)

\* C18: within one runScan invocation at most one HTTP request, baseline or
\* probe, is in flight at any time, also while other invocations have
\* requests in flight: a request is dispatched only when every earlier
\* request of the same invocation has settled, and the baseline of the next
\* endpoint only after the last probe of the endpoint before it
Prop_C18 ==
  /\ [](\A id \in RunIds : Cardinality(InFlightOf(id)) <= 1)
  /\ [][\A id \in RunIds :
          \A r \in inflight' \ inflight :
            r.run = id =>
              /\ InFlightOf(id) = {}
              /\ r.seq = runs[id].seq + 1
              /\ r.kind = "baseline" => (runs[id].pc = "loop" /\ runs[id].left = 0)]_vars

\* two invocations have a probe in flight each, the second probe of the one
\* and the first of the other
Witness_C18 ==
  /\ \E a \in inflight : a.run = 1 /\ a.kind = "probe" /\ a.seq = 3
  /\ \E b \in inflight : b.run = 2 /\ b.kind = "probe" /\ b.seq = 2
  /\ Cardinality(inflight) = 2

(***************************************************************************)
(* The WAF short-circuit of the seven analyzers that have one              *)
(***************************************************************************)

\* the first indicator of a result returned by a WAF short-circuit
WafBlockIndicators ==
  {"WAF/Firewall blocked the malicious request",
   "WAF/Firewall blocked the request",
   "Bot/DDoS protection is active"}

WafShortCircuitFired ==
  /\ AnalyzerReturned
  /\ Len(call.result.indicators) > 0
  /\ call.result.indicators[1] \in WafBlockIndicators

\* the statuses the analyzer's isWAFBlocked looks at
BlockStatuses(type) ==
  IF type = "Rate Limiting" THEN {403, 429, 503} ELSE {403, 406, 429}

\* the block-indicator phrases of the analyzer's isWAFBlocked
WafIndicatorsOf(type) ==
  CASE type = "SQL Injection" -> sql_wafIndicators
    [] type = "XSS" -> xss_wafIndicators
    [] type = "Command Injection" -> cmd_wafIndicators
    [] type = "Path Traversal" -> path_wafIndicators
    [] type = "NoSQL Injection" -> nosql_wafIndicators
    [] type = "Header Injection" -> header_wafIndicators
    [] type = "Rate Limiting" -> rate_wafIndicators
    [] OTHER -> <<>>

AnyProxyFingerprint ==
  \/ Includes(CallBody, <<"cloudflare", "ray", "id">>)
  \/ Includes(CallBody, <<"cf-ray">>)

\* C19: the WAF short-circuit of an analyzer fires only when the status is in
\* the analyzer's block-status set and the body contains one of its
\* block-indicator phrases, or the body contains an edge-proxy fingerprint;
\* so the rate-limit analyzer reports no block on a 403 or 503 alone, nor on
\* an indicator phrase alone in a 200 response
Inv_C19 ==
  WafShortCircuitFired =>
    \/ /\ call.response.status \in BlockStatuses(call.type)
       /\ SomeIncludes(WafIndicatorsOf(call.type), CallBody)
    \/ AnyProxyFingerprint

\* the same condition for the six analyzers other than the rate-limit one
WafConditionElsewhere ==
  (WafShortCircuitFired /\ call.type # "Rate Limiting") =>
    \/ /\ call.response.status \in BlockStatuses(call.type)
       /\ SomeIncludes(WafIndicatorsOf(call.type), CallBody)
    \/ AnyProxyFingerprint

(***************************************************************************)
(* Positive evidence and secondary checks of the SQL, command-injection    *)
(* and path-traversal analyzers                                            *)
(***************************************************************************)

\* the indicators pushed by a positive-evidence signature match
SignatureIndicators ==
  {"SQL error message detected in response",
   "Potential data leakage detected",
   "Potential authentication bypass",
   "Command output detected in response",
   "System/config file content detected"}

\* the notes a signature match leaves
SignatureNotes ==
  {"VULNERABLE: SQL error exposed",
   "VULNERABLE: Sensitive data pattern found in response",
   "VULNERABLE: SQL injection payload resulted in successful authentication",
   "VULNERABLE: System command output found",
   "VULNERABLE: System file content found"}

\* the indicators pushed by the secondary checks: baseline status change,
\* timing threshold, shell-error patterns, content-type heuristic
SecondaryIndicators ==
  {"Status code changed from error to success",
   "Time-based command injection detected",
   "Shell error message in response",
   "Binary file content returned",
   "File found after path traversal"}

SignatureAnalyzers == {"SQL Injection", "Command Injection", "Path Traversal"}

HasIndicator(set) ==
  \E n \in 1..Len(call.result.indicators) : call.result.indicators[n] \in set

SignatureMatched ==
  /\ AnalyzerReturned
  /\ call.type \in SignatureAnalyzers
  /\ HasIndicator(SignatureIndicators)

\* C20: a positive-evidence signature match gives vulnerable = true and
\* confidence = high, and no secondary check runs after it, so the
\* confidence and the notes returned are those of the signature match
Inv_C20 ==
  SignatureMatched =>
    /\ call.result.vulnerable = TRUE
    /\ call.result.confidence = "high"
    /\ call.result.notes \in SignatureNotes
    /\ ~HasIndicator(SecondaryIndicators)

(***************************************************************************)
(* The benign-rejection step of the five analyzers that have one           *)
(***************************************************************************)

RejectionAnalyzers ==
  {"SQL Injection", "XSS", "Command Injection", "Path Traversal", "NoSQL Injection"}

\* the 4xx statuses the rejection step of the analyzer looks at
RejectionRange(type) ==
  CASE type = "SQL Injection" -> {s \in Statuses : s >= 400 /\ s < 500 /\ s # 401}
    [] type = "Path Traversal" -> {400, 403, 404}
    [] type \in {"XSS", "Command Injection", "NoSQL Injection"} ->
         {s \in Statuses : s >= 400 /\ s < 500}
    [] OTHER -> {}

WafSignal ==
  CASE call.type = "SQL Injection" -> sql_isWAFBlocked(call.response, CallBody)
    [] call.type = "XSS" -> xss_isWAFBlocked(call.response, CallBody)
    [] call.type = "Command Injection" -> cmd_isWAFBlocked(call.response, CallBody)
    [] call.type = "Path Traversal" -> path_isWAFBlocked(call.response, CallBody)
    [] call.type = "NoSQL Injection" -> nosql_isWAFBlocked(call.response, CallBody)
    [] OTHER -> FALSE

\* the one indicator a rejection short-circuit returns
RejectionIndicators ==
  {prefix \o ToString(s) :
     prefix \in {"Request rejected with status ",
                 "Request rejected/not found with status "},
     s \in Statuses}

BenignRejection ==
  /\ AnalyzerReturned
  /\ call.type \in RejectionAnalyzers
  /\ call.response.status \in RejectionRange(call.type)
  /\ ~WafSignal

RejectedAndStopped ==
  /\ call.result.vulnerable = FALSE
  /\ Len(call.result.indicators) = 1
  /\ call.result.indicators[1] \in RejectionIndicators

\* C21: a response with a 4xx status in the rejection range of the analyzer
\* and no WAF signal gives vulnerable = false and no later check runs, for
\* the XSS analyzer too when the body reflects the payload
Inv_C21 == BenignRejection => RejectedAndStopped

\* the same for the four analyzers other than the XSS one
RejectionElsewhere ==
  (BenignRejection /\ call.type # "XSS") => RejectedAndStopped

(***************************************************************************)
(* The default result of the analyzers                                     *)
(***************************************************************************)

\* the indicators an analyzer pushes when none of its checks matched
NothingFoundIndicators ==
  {"No SQL injection indicators found",
   "Payload was not reflected in response",
   "No command injection indicators found",
   "No path traversal indicators found",
   "No NoSQL injection indicators found",
   "Header injection payload rejected or not reflected",
   "Server handled malformed payload gracefully"}
  \cup {"method returned " \o ToString(s) : s \in Statuses}

\* no indicator of the result was pushed by a check
NoCheckMatched ==
  /\ AnalyzerReturned
  /\ \A n \in 1..Len(call.result.indicators) :
       call.result.indicators[n] \in NothingFoundIndicators

\* the status code of the response is in an indicator or in the notes
StatusReported ==
  \/ \E n \in 1..Len(call.result.indicators) :
       call.result.indicators[n] = "method returned " \o ToString(call.response.status)
  \/ call.result.notes = "SAFE: Server responded with " \o ToString(call.response.status)

\* C22: when no check of an analyzer matched, the result has vulnerable =
\* false and an indicator saying that nothing was found, with the observed
\* status code; and no analyzer returns an empty indicators sequence
Inv_C22 ==
  /\ AnalyzerReturned => Len(call.result.indicators) > 0
  /\ NoCheckMatched =>
       /\ call.result.vulnerable = FALSE
       /\ HasIndicator(NothingFoundIndicators)
       /\ StatusReported

\* the part of it that does hold: a result whose indicators are only
\* nothing-found ones has vulnerable = false
DefaultIsNotVulnerable ==
  (NoCheckMatched /\ Len(call.result.indicators) > 0) => call.result.vulnerable = FALSE

(***************************************************************************)
(* The baseline of an endpoint                                             *)
(***************************************************************************)

BaselineDispatched == sent' # sent /\ sent'.kind = "baseline"

ProbeDispatched == sent' # sent /\ sent'.kind = "probe"

\* the records of tests that carry a baseline status all carry this one
AllCarry(tests, status) ==
  \A n \in 1..Len(tests) :
    tests[n].result # "ERROR" => tests[n].baselineStatus = status

\* C23: the baseline request of an endpoint is dispatched once, when the
\* endpoint begins and before any of its probes; from then on the baseline
\* is not assigned again, each probe is analyzed against it, and every
\* record of the endpoint that has a baseline status has that same value
Prop_C23 ==
  /\ [][BaselineDispatched =>
          /\ pc = "loop"
          /\ Len(progress) = loopIndex
          /\ Len(progress') = loopIndex + 1
          /\ cur'.tests = <<>>]_vars
  /\ [][ProbeDispatched =>
          /\ pc = "next"
          /\ Len(progress) = loopIndex + 1
          /\ (Len(cur.tests) = 0 => last.response.status = baseline.status)]_vars
  /\ [][(pc \in {"next", "probe", "delay"}) => baseline' = baseline]_vars
  /\ [][(pc = "probe" /\ pc' = "delay") =>
          cur'.tests[Len(cur'.tests)] =
            AnalyzedRecord(CurrentType, CurrentPayload, sent, last',
                           analyzeResponse(CurrentType, last'.response, CurrentPayload,
                                           baseline.status, last'.responseTime),
                           [status |-> baseline.status])]_vars
  /\ [](pc \in {"next", "probe", "delay"} => AllCarry(cur.tests, baseline.status))
  /\ [](\A k \in 1..Len(report.endpoints) :
          \E status \in {Null, 0, 200} : AllCarry(report.endpoints[k].tests, status))

\* an endpoint whose baseline request failed (status 0) and whose probes were
\* answered with 200: two records, both with baseline status 0
Witness_C23 ==
  /\ pc = "delay"
  /\ baseline.status = 0
  /\ Len(cur.tests) = 2
  /\ cur.tests[1].result # "ERROR" /\ cur.tests[1].baselineStatus = 0
  /\ cur.tests[2].result # "ERROR" /\ cur.tests[2].baselineStatus = 0
  /\ cur.tests[2].responseCode = 200

(***************************************************************************)
(* The pause between probes                                                *)
(***************************************************************************)

\* the request of a probe settles in this step
ProbeSettles == pc = "probe" /\ pc' # "probe"

\* C24: after every probe, whatever its outcome (PASS, FAIL or ERROR), the
\* 50 ms pause comes next, before any other probe is dispatched
Prop_C24 == [][ProbeSettles => pc' = "delay"]_vars

\* the part of it that holds: the pause follows every analyzed probe
PauseAfterAnalysis ==
  [][(ProbeSettles /\ cur'.tests[Len(cur'.tests)].result # "ERROR") => pc' = "delay"]_vars

(***************************************************************************)
(* The response preview (truncateResponse).  A text is a sequence of runs, *)
(* each the characters from..to - 1 of a named source text                 *)
(***************************************************************************)

MaxBodyLength == 260

PreviewLimit == 200

Run(of, from, to) == [of |-> of, from |-> from, to |-> to]

\* the text of n characters named of; no run for the empty text
Text(of, n) == IF n = 0 THEN <<>> ELSE <<Run(of, 0, n)>>

RECURSIVE Length(_)
\* String.length
Length(str) ==
  IF str = <<>> THEN 0 ELSE (Head(str).to - Head(str).from) + Length(Tail(str))

\* str.substring(0, k) of a text of one run
Substring(str, k) ==
  IF str = <<>> \/ k = 0 THEN <<>>
  ELSE <<Run(str[1].of, str[1].from,
             IF str[1].from + k < str[1].to THEN str[1].from + k ELSE str[1].to)>>

NoResponseBody == Text("[No response body]", 18)

TruncatedMarker == Text("... [truncated]", 15)

\* the values response?.data can have: undefined, a string, or an object
\* whose JSON text has n characters
PreviewInputs ==
  {[kind |-> "undefined", text |-> <<>>]}
    \cup {[kind |-> "string", text |-> Text("body", n)] : n \in 0..MaxBodyLength}
    \cup {[kind |-> "object", text |-> Text("json", n)] : n \in 2..MaxBodyLength}

\* !data
Falsy(data) == data.kind = "undefined" \/ (data.kind = "string" /\ data.text = <<>>)

\* truncateResponse(data); typeof data === 'string' ? data : JSON.stringify(data)
\* is data.text
truncateResponse(data) ==
  IF Falsy(data) THEN NoResponseBody
  ELSE IF Length(data.text) <= PreviewLimit THEN data.text
  ELSE Substring(data.text, PreviewLimit) \o TruncatedMarker

PreviewInit ==
  /\ \E data \in PreviewInputs :
       call = [phase |-> "called", type |-> "truncateResponse", data |-> data,
               result |-> <<>>]
  /\ InjectIdle
  /\ ScanIdle

\* responsePreview: truncateResponse(response?.data)
PreviewReturn ==
  /\ call.phase = "called"
  /\ call' = [call EXCEPT !.phase = "returned", !.result = truncateResponse(call.data)]
  /\ UNCHANGED injectVars
  /\ UNCHANGED scanVars
  /\ UNCHANGED serverVars

SpecPreview == PreviewInit /\ [][PreviewReturn]_vars

PreviewReturned == call.phase = "returned"

\* C25: the preview is at most 200 characters long, truncation marker
\* included, and a body of at most 200 characters is stored unchanged
Inv_C25 ==
  PreviewReturned =>
    /\ Length(call.result) <= PreviewLimit
    /\ (call.data.kind # "undefined" /\ Length(call.data.text) <= PreviewLimit) =>
         call.result = call.data.text

\* what does hold: the preview starts with the first 200 characters of the
\* body and is at most 215 characters long; a non-empty body of at most 200
\* characters is stored unchanged
PreviewAsBuilt ==
  PreviewReturned =>
    /\ Length(call.result) <= PreviewLimit + Length(TruncatedMarker)
    /\ (~Falsy(call.data) /\ Length(call.data.text) <= PreviewLimit) =>
         call.result = call.data.text
    /\ Length(call.data.text) > PreviewLimit =>
         /\ call.result[1] = Run(call.data.text[1].of, 0, PreviewLimit)
         /\ Length(call.result) = PreviewLimit + Length(TruncatedMarker)

(***************************************************************************)
(* The counts of an endpoint result                                        *)
(***************************************************************************)

CountsAddUp(r) ==
  /\ r.summary.total = r.summary.passed + r.summary.failed + r.summary.errors
  /\ r.summary.total = Len(r.tests)

BetweenProbes == pc \in {"next", "delay"}

\* C26: between two probes and in the report, the total of every endpoint
\* result is passed + failed + errors and is the number of its records, the
\* result recorded for an endpoint whose scan raised an exception included
Inv_C26 ==
  /\ BetweenProbes => CountsAddUp(cur)
  /\ \A k \in 1..Len(report.endpoints) : CountsAddUp(report.endpoints[k])

\* the result runScan records for an endpoint whose scan raised
RaisedResult(r) ==
  /\ r.tests = <<>>
  /\ r.summary = [total |-> 0, passed |-> 0, failed |-> 0, errors |-> 1]

\* what does hold: the counts add up for every result scanEndpoint builds
CountsAddUpUnlessRaised ==
  /\ BetweenProbes => CountsAddUp(cur)
  /\ \A k \in 1..Len(report.endpoints) :
       CountsAddUp(report.endpoints[k]) \/ RaisedResult(report.endpoints[k])

(***************************************************************************)
(* The counts of the scan                                                  *)
(***************************************************************************)

RECURSIVE SumOver(_, _, _)
\* the sum of summary[field] over the first n endpoint results
SumOver(results, field, n) ==
  IF n = 0 THEN 0
  ELSE SumOver(results, field, n - 1) + results[n].summary[field]

SumRecorded(field) == SumOver(report.endpoints, field, Len(report.endpoints))

\* C27: after every completed endpoint and in the final report, totalTests,
\* passed, failed and errors of the scan are the sums of total, passed,
\* failed and errors over the endpoint results recorded so far
Inv_C27 ==
  /\ report.summary.totalTests = SumRecorded("total")
  /\ report.summary.passed = SumRecorded("passed")
  /\ report.summary.failed = SumRecorded("failed")
  /\ report.summary.errors = SumRecorded("errors")

\* a finished scan of two endpoints, one of which raised, with records of
\* each verdict counted
Witness_C27 ==
  /\ pc = "done"
  /\ Len(report.endpoints) = 2
  /\ \E k \in 1..2 : RaisedResult(report.endpoints[k])
  /\ report.summary.failed > 0
  /\ report.summary.passed > 0
  /\ report.summary.errors > 1

(***************************************************************************)
(* The injection points probed with injectLocation 'all'                   *)
(***************************************************************************)

PathPoint == "URL path (appended)"

HeaderPoint == "Header: X-Test-Input (injected)"

NoQueryKeys(d) == d.queryParams \in {Absent, <<>>}

NoBodyKeys(d) == d.bodyKind # "object" \/ d.body \in {Absent, <<>>}

\* the header variant is among the first two variants of d
HeaderProbed(d) ==
  /\ NoQueryKeys(d)
  /\ NoBodyKeys(d)
  /\ d.method \notin {"POST", "PUT", "PATCH"}

PointsAsClaimed(d, tests) ==
  \A n \in 1..Len(tests) :
    /\ tests[n].injectionPoint # PathPoint
    /\ tests[n].injectionPoint = HeaderPoint => HeaderProbed(d)

\* C28: with injectLocation = all no record has the URL-path injection point,
\* and a record has the header injection point only for an endpoint with no
\* query keys, no structured-body keys and a method outside POST, PUT, PATCH
Inv_C28 ==
  injectLocation(input.options) = "all" =>
    /\ Scanning => PointsAsClaimed(Endpoint, cur.tests)
    /\ \A k \in 1..Len(report.endpoints) :
         PointsAsClaimed(input.endpoints[k], report.endpoints[k].tests)

\* the finished scan of the GET endpoint without query or body: the header
\* point was probed, and so was the added query parameter
Witness_C28 ==
  /\ pc = "done"
  /\ injectLocation(input.options) = "all"
  /\ HeaderProbed(input.endpoints[1])
  /\ \E n \in 1..Len(report.endpoints[1].tests) :
       report.endpoints[1].tests[n].injectionPoint = HeaderPoint
  /\ \E n \in 1..Len(report.endpoints[1].tests) :
       report.endpoints[1].tests[n].injectionPoint = "Query param: q (injected)"

(***************************************************************************)
(* The confidence of a positive result                                     *)
(***************************************************************************)

\* C29: an AnalysisResult with vulnerable = true has confidence medium or
\* high, never low, whichever of the ten analyzers returned it; so the
\* confidence copied into a FAIL record is medium or high
Inv_C29 ==
  (AnalyzerReturned /\ call.result.vulnerable) =>
    call.result.confidence \in {"medium", "high"}

\* the payload-size analyzer returns a positive result of medium confidence
Witness_C29 ==
  /\ AnalyzerReturned
  /\ call.result.vulnerable
  /\ call.result.confidence = "medium"
  /\ call.type = "Payload Size"

\* the records of a scan: a FAIL record has confidence medium or high
FailRecordsConfident ==
  /\ \A n \in 1..Len(cur.tests) :
       cur.tests[n].result = "FAIL" => cur.tests[n].confidence \in {"medium", "high"}
  /\ \A k \in 1..Len(report.endpoints) :
       \A n \in 1..Len(report.endpoints[k].tests) :
         report.endpoints[k].tests[n].result = "FAIL" =>
           report.endpoints[k].tests[n].confidence \in {"medium", "high"}

(***************************************************************************)
(* The identifier of a report                                              *)
(***************************************************************************)

Completed(key) == key \in DOMAIN registry /\ registry[key].status = "completed"

\* C30: the scanId inside the report of a scan started through POST
\* /api/scan is the registry key the report is stored under, so a status
\* query with the report's scanId finds that report
Prop_C30 ==
  /\ [](\A key \in ScanIds : Completed(key) => registry[key].results.scanId = key)
  /\ [][\A key \in ScanIds :
          (/\ Completed(key)
           /\ reply' # reply
           /\ reply'.scanId = registry[key].results.scanId)
          => (reply'.status = 200 /\ reply'.body = "completed")]_vars

\* what does hold: a status query with the key returned to the client finds
\* the report while it is stored
QueryByKeyFinds ==
  [][\A key \in ScanIds :
       (Completed(key) /\ reply' # reply /\ reply'.scanId = key)
       => (reply'.status = 200 /\ reply'.body = "completed")]_vars

====
